---- MODULE Spec2Model ----
(***************************************************************************)
(* State-machine model of the slide editor in                              *)
(* src/src/components/PresentationApp.js (React component PresentationApp) *)
(* and of the slide-reordering drop handler of SlidePanel.js.              *)
(*                                                                         *)
(* One action is one browser event (a handler call or a timer callback)    *)
(* together with the React commit it causes: the re-render and the passive *)
(* effects, run in their declaration order, cleanups first.                *)
(*                                                                         *)
(* Geometry: element coordinates stored in the document are integers in    *)
(* canvas units; raw pointer positions reported by the drag primitive are  *)
(* fixed-point numbers in quarters of a unit, so that Math.round acts.     *)
(***************************************************************************)
EXTENDS Integers, Sequences, FiniteSets, TLC

VARIABLES
    slides,                 \* useState slides (the live document)
    currentSlideIndex,      \* useState currentSlideIndex (0-based)
    activeDesign,           \* useState activeDesign (index of the preset)
    fileName,               \* useState fileName
    history,                \* useState history (sequence of snapshots)
    historyIndex,           \* useState historyIndex (0-based cursor)
    historyRef,             \* useRef historyRef
    historyIndexRef,        \* useRef historyIndexRef
    slidesRef,              \* useRef slidesRef
    isUndoRedoAction,       \* useRef isUndoRedoAction
    lastSavedStateRef,      \* useRef lastSavedStateRef (hash last committed)
    isMutatingRef,          \* useRef isMutatingRef
    endMutatingTimeoutRef,  \* useRef endMutatingTimeoutRef: TRUE = timer pending
    persistenceTimeoutRef,  \* useRef persistenceTimeoutRef: TRUE = timer pending
    selectedElement,        \* useState selectedElement (id and type of the item)
    editingTextId,          \* useState editingTextId
    shapeToolbarPosition,   \* useState shapeToolbarPosition
    chartToolbarPosition,   \* useState chartToolbarPosition
    imageToolbarPosition,   \* useState imageToolbarPosition
    keepInsertEnabled,      \* useState keepInsertEnabled
    pendingInsert,          \* useState pendingInsert (insertion tool armed)
    pendingInsertPos,       \* useState pendingInsertPos (image being inserted)
    randomState,            \* the generator behind Math.random()
    imageRead,              \* the file read of handleImageFileChange not yet loaded
    thumbnails,             \* useState thumbnails (slide id -> captured image)
    thumbnailDebounceTimeout, \* useRef thumbnailDebounceTimeout: TRUE = timer pending
    thumbnailCaptureFrame,  \* useRef thumbnailCaptureFrame: the frame requested
    inFlight,               \* the toPng promises not yet settled
    isSlideshow,            \* useState isSlideshow
    slideshowIntervalRef,   \* useRef slideshowIntervalRef: TRUE = interval running
    mounted,                \* whether the component is mounted
    storage,                \* the storage collaborator: last document saved
    rnd,                    \* the drag/resize primitive: gesture in progress
    now,                    \* Date.now()
    lastOp,                 \* history variable: the event of the last step
    gesture,                \* history variable: the last drag or resize
    nEvents,                \* history variable: number of events so far
    endMutatingTimeouts,    \* the settle callbacks setTimeout holds
    persistenceTimeouts,    \* the save callbacks setTimeout holds
    thumbnailTimeouts       \* the thumbnail callbacks setTimeout holds

vars == << slides, currentSlideIndex, activeDesign, fileName, history,
           historyIndex, historyRef, historyIndexRef, slidesRef,
           isUndoRedoAction, lastSavedStateRef, isMutatingRef,
           endMutatingTimeoutRef, persistenceTimeoutRef, selectedElement,
           editingTextId, shapeToolbarPosition, chartToolbarPosition,
           imageToolbarPosition, keepInsertEnabled, pendingInsert,
           pendingInsertPos, randomState, imageRead,
           thumbnails, thumbnailDebounceTimeout, thumbnailCaptureFrame,
           inFlight, isSlideshow, slideshowIntervalRef, mounted, storage, rnd,
           now, lastOp, gesture, nEvents, endMutatingTimeouts,
           persistenceTimeouts, thumbnailTimeouts >>

-----------------------------------------------------------------------------
(* Program constants *)

HISTORY_PERSIST_LIMIT == 20

\* the callbacks of one kind that setTimeout holds, n of them, after
\* setTimeout(callback, ms)
setTimeout(n) == n + 1

\* ... after if (ref.current) clearTimeout(ref.current)
clearTimeout(pending, n) == IF pending THEN n - 1 ELSE n

\* ... after setTimeout without the clearTimeout before it
clearThenSet_noClear(pending, n) == setTimeout(n)

\* ... after if (ref.current) clearTimeout(ref.current) followed by
\* ref.current = setTimeout(callback, ms)
clearThenSet(pending, n) == setTimeout(clearTimeout(pending, n))

(* Bounds of the model *)

MaxEvents == 5      \* events per behaviour of the editor specification
MaxDeckEvents == 3  \* events per behaviour of the deck specification
MaxSlides == 3      \* addSlide is offered while the deck is shorter
MaxElements == 2    \* addElement is offered while the slide holds fewer
NudgeRange == 23    \* x positions the capacity specification cycles through
MaxTitleEvents == 3 \* events per behaviour of the titles specification
MaxTitleSlides == 4 \* addSlide is offered there while the deck is shorter
MaxElementEvents == 4 \* events per behaviour of the elements specification
MaxContent == 3     \* insertions are offered there while the slide holds fewer
MaxSelectionEvents == 5 \* events per behaviour of the selection specification
MaxSaveEvents == 5  \* events per behaviour of the save specification
MaxLoadEvents == 3  \* events per behaviour of the load specification
MaxInsertEvents == 4 \* events per behaviour of the insertion specification
MaxLifeEvents == 4  \* events per behaviour of the life-cycle specification
MaxSnapshotEvents == 4 \* events per behaviour of the snapshots specification
MaxChartEvents == 2  \* events per behaviour of the charts specification
MaxCharts == 2      \* a chart is added there while the slide holds fewer elements
MaxImageEvents == 4  \* events per behaviour of the image specification
MaxGestureEvents == 7 \* events per behaviour of the gestures specification
MaxRestoreEvents == 6 \* events per behaviour of the restore specification

\* ids of the slides of stored documents: above every id createSlide gives
\* within the bounds, slides with a title of their own above the others
StoredIdBase == 100
CustomIdBase == 200

-----------------------------------------------------------------------------
(* Small helpers *)

RangeOf(s) == { s[i] : i \in 1..Len(s) }

Min(a, b) == IF a < b THEN a ELSE b
Max(a, b) == IF a > b THEN a ELSE b

\* JavaScript Array.prototype.slice(0, end) on a TLA+ sequence
SliceTo(s, end) == SubSeq(s, 1, Min(Max(end, 0), Len(s)))

\* JavaScript Array.prototype.slice(start)
SliceFrom(s, start) == SubSeq(s, Min(Max(start, 0), Len(s)) + 1, Len(s))

\* s with the element at 0-based position i removed (splice(i, 1), filter)
RemoveAt(s, i) ==
    IF i < 0 \/ i >= Len(s) THEN s
    ELSE SubSeq(s, 1, i) \o SubSeq(s, i + 2, Len(s))

\* s with e inserted at 0-based position i (splice(i, 0, e)), 0 <= i <= Len(s)
InsertAt(s, i, e) == SubSeq(s, 1, i) \o << e >> \o SubSeq(s, i + 1, Len(s))

\* Math.round of a fixed-point number given in quarters: floor(q/4 + 1/2)
MathRound(q) == (q + 2) \div 4

NoDoc  == [present |-> FALSE]

\* null, as the value of selectedElement, of an element id and of a toolbar
\* position; Anchor stands for a position { x, y } read from the layout
NoElement == [id |-> -1, type |-> "null"]
NoId == -1
NoInsert == [type |-> "null"]
NoFrame == [pending |-> FALSE]
NoRead == [pending |-> FALSE]
NoThumbnails == << >>
NullPos == "null"
Anchor == "anchor"
NoRnd  == [kind |-> "none", id |-> -1, x |-> 0, y |-> 0, width |-> 0, height |-> 0]

-----------------------------------------------------------------------------
(* Chart data *)

CHART_COLOR_PALETTE ==
    << "#111111", "#2d2d2d", "#515151", "#6b6b6b", "#868686", "#a3a3a3", "#c7c7c7" >>

\* getPaletteColor(index): 0-based index into the palette, wrapping around
getPaletteColor(index) ==
    CHART_COLOR_PALETTE[(index % Len(CHART_COLOR_PALETTE)) + 1]

NoChart == [type |-> "none"]

\* CHART_DIMENSIONS[chartType] || { width: 360, height: 240 }
CHART_DIMENSIONS(chartType) ==
    CASE chartType = "bar"        -> [width |-> 420, height |-> 280]
      [] chartType = "area"       -> [width |-> 410, height |-> 260]
      [] chartType = "pie"        -> [width |-> 320, height |-> 320]
      [] chartType = "columnLine" -> [width |-> 430, height |-> 290]
      [] OTHER                    -> [width |-> 360, height |-> 240]

\* A dataset: label, data, color ("" when it has none), variant and, for
\* some, segmentColors
Dataset(label, data, color, variant) ==
    [label |-> label, data |-> data, color |-> color, variant |-> variant]

\* a || b on strings: "" stands for a string that is not set
OrElse(a, b) == IF a # "" THEN a ELSE b

\* createDefaultChartData(chartType); the random series ids are left out
createDefaultChartData(chartType) ==
    LET quarterLabels == << "Q1", "Q2", "Q3", "Q4" >>
        barData ==
            [type |-> "bar", title |-> "Bar Chart", labels |-> quarterLabels,
             datasets |-> <<
                Dataset("North", << 48, 38, 44, 52 >>, getPaletteColor(0), "bar"),
                Dataset("South", << 36, 41, 30, 44 >>, getPaletteColor(1), "bar"),
                Dataset("West",  << 28, 34, 36, 32 >>, getPaletteColor(2), "bar") >>]
    IN CASE chartType = "area" ->
            [type |-> "area", title |-> "Area Chart", labels |-> quarterLabels,
             datasets |-> <<
                Dataset("Organic",  << 18, 26, 32, 28 >>, getPaletteColor(0), "area"),
                Dataset("Paid",     << 12, 18, 22, 26 >>, getPaletteColor(1), "area"),
                Dataset("Referral", << 8, 12, 18, 20 >>,  getPaletteColor(2), "area") >>]
         [] chartType = "pie" ->
            [type |-> "pie", title |-> "Pie Chart",
             labels |-> << "North", "South", "East", "West" >>,
             datasets |-> <<
                [label |-> "Share", data |-> << 32, 26, 18, 24 >>,
                 color |-> getPaletteColor(0), variant |-> "pie",
                 segmentColors |-> [index \in 1..4 |-> getPaletteColor(index - 1)]] >>]
         [] chartType = "columnLine" ->
            [type |-> "columnLine", title |-> "Column + Line", labels |-> quarterLabels,
             datasets |-> <<
                Dataset("Revenue",    << 45, 58, 64, 60 >>, getPaletteColor(0), "bar"),
                Dataset("Costs",      << 24, 32, 38, 30 >>, getPaletteColor(2), "bar"),
                Dataset("Conversion", << 28, 34, 42, 48 >>, getPaletteColor(1), "line") >>]
         [] OTHER -> barData

\* element[key], or none when the element has no such field
Field(element, key, none) ==
    IF key \in DOMAIN element THEN element[key] ELSE none

\* the chart the editor hands to ChartComponent for a chart element: type,
\* labels and datasets of element.chartData || createDefaultChartData(...),
\* every dataset with color: dataset.color || getPaletteColor(index)
editorChart(element) ==
    LET chartType   == Field(element, "chartType", "")
        chartConfig == IF element.chartData # NoChart
                       THEN element.chartData
                       ELSE createDefaultChartData(OrElse(chartType, "bar"))
    IN [type |-> OrElse(chartConfig.type, OrElse(chartType, "bar")),
        labels |-> chartConfig.labels,
        datasets |-> [i \in 1..Len(chartConfig.datasets) |->
            [chartConfig.datasets[i] EXCEPT
                !.color = OrElse(@, getPaletteColor(i - 1))]]]

CHART_PREVIEW_COLORS ==
    << "#3b82f6", "#ef4444", "#f59e0b", "#10b981", "#6366f1", "#a855f7",
       "#14b8a6", "#f97316" >>

\* CHART_PREVIEW_COLORS[index % CHART_PREVIEW_COLORS.length], with the first
\* colour for every index
previewColor_first(index) == CHART_PREVIEW_COLORS[1]

\* CHART_PREVIEW_COLORS[index % CHART_PREVIEW_COLORS.length]
previewColor(index) ==
    CHART_PREVIEW_COLORS[(index % Len(CHART_PREVIEW_COLORS)) + 1]

\* datasetColor(dataset, index) of the slide panel
datasetColor(dataset, index) ==
    LET segmentColors == Field(dataset, "segmentColors", << >>)
    IN IF index + 1 <= Len(segmentColors) /\ segmentColors[index + 1] # ""
       THEN segmentColors[index + 1]
       ELSE IF dataset.color # "" THEN dataset.color
       ELSE IF Field(dataset, "backgroundColor", "") # ""
            THEN dataset.backgroundColor
       ELSE previewColor(index)

\* `series-${index}` and `Item ${index + 1}`, `Series ${index + 1}`
SeriesId(index) ==
    << "series-0", "series-1", "series-2", "series-3", "series-4", "series-5",
       "series-6", "series-7", "series-8", "series-9" >>[index + 1]
ItemLabel(index) ==
    << "Item 1", "Item 2", "Item 3", "Item 4", "Item 5", "Item 6", "Item 7",
       "Item 8", "Item 9", "Item 10" >>[index + 1]
SeriesLabel(index) ==
    << "Series 1", "Series 2", "Series 3", "Series 4", "Series 5", "Series 6",
       "Series 7", "Series 8", "Series 9", "Series 10" >>[index + 1]

\* extractChartPreview(element) of the slide panel
extractChartPreview(element) ==
    LET chartData == element.chartData
        chartType == OrElse(Field(element, "chartType", ""),
                            IF chartData # NoChart THEN OrElse(chartData.type, "bar")
                            ELSE "bar")
        fallbackLabels ==
            IF chartData # NoChart
            THEN chartData.labels
            ELSE << ItemLabel(0) >>
        fallbackDatasets ==
            IF chartData # NoChart /\ Len(chartData.datasets) > 0
            THEN chartData.datasets
            ELSE << [id |-> SeriesId(0), label |-> SeriesLabel(0),
                     color |-> CHART_PREVIEW_COLORS[1],
                     data |-> [i \in 1..Len(fallbackLabels) |-> 0]] >>
        fallback == [chartType |-> chartType, labels |-> fallbackLabels,
                     datasets |-> fallbackDatasets]
        slideSeries == Field(element, "series", << >>)
        slideData   == Field(element, "data", << >>)
        labels ==
            IF Len(slideData) > 0
            THEN [i \in 1..Len(slideData) |->
                    OrElse(slideData[i].label, ItemLabel(i - 1))]
            ELSE fallbackLabels
        fromSeries ==
            [i \in 1..Len(slideSeries) |->
                [id |-> OrElse(slideSeries[i].id, SeriesId(i - 1)),
                 label |-> OrElse(slideSeries[i].name, SeriesLabel(i - 1)),
                 color |-> OrElse(slideSeries[i].color, previewColor(i - 1))]]
        fromFallback ==
            [i \in 1..Len(fallbackDatasets) |->
                [id |-> Field(fallbackDatasets[i], "id", SeriesId(i - 1)),
                 label |-> OrElse(fallbackDatasets[i].label, SeriesLabel(i - 1)),
                 color |-> OrElse(fallbackDatasets[i].color, previewColor(i - 1))]]
        normalizedSeries == IF Len(slideSeries) > 0 THEN fromSeries ELSE fromFallback
        valueOf(point, id) ==
            IF id \in DOMAIN point.values THEN point.values[id] ELSE 0
        datasets ==
            [i \in 1..Len(normalizedSeries) |->
                [id |-> normalizedSeries[i].id,
                 label |-> normalizedSeries[i].label,
                 color |-> normalizedSeries[i].color,
                 data |-> IF Len(slideData) > 0
                          THEN [j \in 1..Len(slideData) |->
                                   valueOf(slideData[j], normalizedSeries[i].id)]
                          ELSE [j \in 1..Len(labels) |-> 0]]]
    IN IF chartData # NoChart /\ Len(chartData.labels) > 0
       THEN fallback
       ELSE [chartType |-> chartType, labels |-> labels,
             datasets |-> IF Len(datasets) > 0 THEN datasets ELSE fallbackDatasets]

\* what the slide panel draws for a chart element: a placeholder text, or
\* the kind of sketch and the colour of every mark class (pie: one per value
\* of the first dataset; line and area: the first dataset; bars: one per
\* dataset)
chartPreview(element) ==
    LET p == extractChartPreview(element)
        nonZero == \E i \in 1..Len(p.datasets) :
                      \E j \in 1..Len(p.datasets[i].data) : p.datasets[i].data[j] > 0
    IN IF Len(p.datasets) = 0 \/ Len(p.labels) = 0
       THEN [kind |-> "placeholder", text |-> "CHART", colors |-> << >>]
       ELSE IF ~nonZero
       THEN [kind |-> "placeholder", text |-> "Add chart data", colors |-> << >>]
       ELSE IF p.chartType = "pie"
       THEN [kind |-> "pie", text |-> "",
             colors |-> [j \in 1..Len(p.datasets[1].data) |->
                            datasetColor(p.datasets[1], j - 1)]]
       ELSE IF p.chartType \in {"line", "area"}
       THEN [kind |-> "line", text |-> "",
             colors |-> << datasetColor(p.datasets[1], 0) >>]
       ELSE [kind |-> "bars", text |-> "",
             colors |-> [i \in 1..Len(p.datasets) |->
                            datasetColor(p.datasets[i], i - 1)]]

\* the chart editor's result for a chart: same data under another title
EditedChartData(cd) == [cd EXCEPT !.title = "Edited"]

-----------------------------------------------------------------------------
(* Slides and elements *)

\* An element: id, type, x, y, width, height, chartData (NoChart when absent)
Element(id, type, x, y, w, h, cd) ==
    [id |-> id, type |-> type, x |-> x, y |-> y, width |-> w, height |-> h,
     chartData |-> cd]

\* createSlideFromLayout(layoutId), of data/slideLayouts: the content of a
\* layout is one text box; its id is fixed by the layout
createSlideFromLayout(layoutId) ==
    [content |-> << Element(0, "text", 120, 120, 320, 60, NoChart) >>]

\* DESIGN_PRESETS[d].background, of constants/presets
DesignBackground(d) == IF d = 0 THEN "#ffffff" ELSE "#0f172a"

\* DESIGN_PRESETS[d].accentColor, of constants/presets
DesignAccent(d) == IF d = 0 THEN "#2563eb" ELSE "#38bdf8"

\* the datasets of a chart under a design: color and every segment colour
\* become design.accentColor || dataset.color
accentDatasets(datasets, design) ==
    [i \in 1..Len(datasets) |->
        LET dataset == datasets[i]
            color   == OrElse(DesignAccent(design), dataset.color)
        IN IF "segmentColors" \in DOMAIN dataset
           THEN [dataset EXCEPT !.color = color,
                                !.segmentColors =
                                    [j \in 1..Len(dataset.segmentColors) |-> color]]
           ELSE [dataset EXCEPT !.color = color]]

DEFAULT_DESIGN == 0

\* A slide title: n > 0 stands for the generated title "Slide n",
\* n <= 0 for a title that does not match /^Slide \d+$/ (0: no title)
AutoTitle(n) == n
IsAutoTitle(t) == t > 0

\* createSlide(index, layoutId, design)
createSlide(index, layoutId, design, t) ==
    [id |-> t + index,
     title |-> AutoTitle(index + 1),
     content |-> createSlideFromLayout(layoutId).content,
     background |-> DesignBackground(design)]

\* applyDesignToSlide(slide, design)
applyDesignToSlide(slide, design) ==
    [slide EXCEPT
        !.background = DesignBackground(design),
        !.content = [j \in 1..Len(slide.content) |->
            LET item == slide.content[j]
            IN IF item.type = "chart" /\ item.chartData # NoChart
               THEN [item EXCEPT !.chartData.datasets =
                        accentDatasets(item.chartData.datasets, design)]
               ELSE item]]

\* a slide object built from {} by addElement when no slide is active, and
\* the hole an out-of-range array assignment leaves behind
NoIdSlide(content) == [id |-> -2, title |-> 0, content |-> content, background |-> "none"]
HoleSlide == [id |-> -1, title |-> 0, content |-> << >>, background |-> "hole"]

\* the renumbering map applied to every slide, whatever its title
Renumber_all(ss) ==
    [i \in 1..Len(ss) |-> [ss[i] EXCEPT !.title = AutoTitle(i)]]

\* the renumbering map of addSlide, deleteSlide and moveSlide
Renumber(ss) ==
    [i \in 1..Len(ss) |->
        IF IsAutoTitle(ss[i].title) THEN [ss[i] EXCEPT !.title = AutoTitle(i)]
        ELSE ss[i]]

\* deepCloneSlides(slides): a copy built slide by slide and item by item
deepCloneChartData(cd) ==
    IF cd.type = "none" THEN cd
    ELSE [type |-> cd.type, title |-> cd.title,
          labels |-> [i \in 1..Len(cd.labels) |-> cd.labels[i]],
          datasets |-> [i \in 1..Len(cd.datasets) |->
              LET ds == cd.datasets[i]
                  clone == [label |-> ds.label,
                            data |-> [j \in 1..Len(ds.data) |-> ds.data[j]],
                            color |-> ds.color,
                            variant |-> ds.variant]
              IN IF "segmentColors" \in DOMAIN ds
                 THEN [k \in DOMAIN clone \cup {"segmentColors"} |->
                          IF k = "segmentColors" THEN ds.segmentColors ELSE clone[k]]
                 ELSE clone]]

deepCloneSlides(ss) ==
    [i \in 1..Len(ss) |->
        [ss[i] EXCEPT !.content =
            IF Len(ss[i].content) > 0
            THEN [j \in 1..Len(ss[i].content) |->
                    [ss[i].content[j] EXCEPT
                        !.chartData = deepCloneChartData(ss[i].content[j].chartData)]]
            ELSE << >>]]

\* computeSlidesHash(slides) = JSON.stringify(slides): the serialized fields
\* of every slide and item, in order
HashItem(e) ==
    << "id", e.id, "type", e.type, "x", e.x, "y", e.y, "width", e.width,
       "height", e.height, "chartData", e.chartData >>

computeSlidesHash(ss) ==
    [i \in 1..Len(ss) |->
        << "id", ss[i].id, "title", ss[i].title,
           "content", [j \in 1..Len(ss[i].content) |-> HashItem(ss[i].content[j])],
           "background", ss[i].background >>]

-----------------------------------------------------------------------------
(* History engine *)

\* addToHistory(nextSlides) without the shift() of the oldest entry
addToHistory_noEviction(nextSlides, hist, hi, hiRef, flag) ==
    IF flag
    THEN [history |-> hist, historyIndex |-> hi, isUndoRedoAction |-> FALSE]
    ELSE [history |-> Append(SliceTo(hist, hiRef + 1), deepCloneSlides(nextSlides)),
          historyIndex |-> Min(hi + 1, HISTORY_PERSIST_LIMIT - 1),
          isUndoRedoAction |-> flag]

\* addToHistory(nextSlides) writing the snapshot over the entry under the
\* cursor, as a mutation made in place on a live model that is that entry
addToHistory_overwritesCursor(nextSlides, hist, hi, hiRef, flag) ==
    IF flag
    THEN [history |-> hist, historyIndex |-> hi, isUndoRedoAction |-> FALSE]
    ELSE [history |-> [hist EXCEPT ![hiRef + 1] = deepCloneSlides(nextSlides)],
          historyIndex |-> hi,
          isUndoRedoAction |-> flag]

\* addToHistory(nextSlides) with pop() in the place of shift()
addToHistory_popNewest(nextSlides, hist, hi, hiRef, flag) ==
    IF flag
    THEN [history |-> hist, historyIndex |-> hi, isUndoRedoAction |-> FALSE]
    ELSE LET updated == Append(SliceTo(hist, hiRef + 1), deepCloneSlides(nextSlides))
         IN [history |-> IF Len(updated) > HISTORY_PERSIST_LIMIT
                         THEN SubSeq(updated, 1, Len(updated) - 1) ELSE updated,
             historyIndex |-> Min(hi + 1, HISTORY_PERSIST_LIMIT - 1),
             isUndoRedoAction |-> flag]

\* addToHistory(nextSlides) without the slice at the cursor: the entries
\* after the cursor stay below the new snapshot
addToHistory_keepsRedo(nextSlides, hist, hi, hiRef, flag) ==
    IF flag
    THEN [history |-> hist, historyIndex |-> hi, isUndoRedoAction |-> FALSE]
    ELSE LET updated == Append(hist, deepCloneSlides(nextSlides))
         IN [history |-> IF Len(updated) > HISTORY_PERSIST_LIMIT
                         THEN Tail(updated) ELSE updated,
             historyIndex |-> Min(hi + 1, HISTORY_PERSIST_LIMIT - 1),
             isUndoRedoAction |-> flag]

\* addToHistory(nextSlides), called with the state hist/hi, the refs hiRef and
\* flag: the resulting history, cursor and isUndoRedoAction
addToHistory(nextSlides, hist, hi, hiRef, flag) ==
    IF flag
    THEN [history |-> hist, historyIndex |-> hi, isUndoRedoAction |-> FALSE]
    ELSE LET snapshot  == deepCloneSlides(nextSlides)
             truncated == SliceTo(hist, hiRef + 1)
             updated   == Append(truncated, snapshot)
         IN [history |-> IF Len(updated) > HISTORY_PERSIST_LIMIT
                         THEN Tail(updated) ELSE updated,
             historyIndex |-> Min(hi + 1, HISTORY_PERSIST_LIMIT - 1),
             isUndoRedoAction |-> flag]

\* the slides history effect without the comparison with lastSavedStateRef
slidesHistoryEffect_noDedup(ss, hist, hi, hiRef, flag, mutating, lastSaved) ==
    LET same == [history |-> hist, historyIndex |-> hi,
                 isUndoRedoAction |-> flag, lastSavedStateRef |-> lastSaved]
        currentHash == computeSlidesHash(ss)
        r == addToHistory(ss, hist, hi, hiRef, flag)
    IN IF Len(ss) = 0 \/ mutating THEN same
       ELSE IF flag
            THEN [same EXCEPT !.lastSavedStateRef = currentHash,
                              !.isUndoRedoAction = FALSE]
       ELSE [history |-> r.history, historyIndex |-> r.historyIndex,
             isUndoRedoAction |-> r.isUndoRedoAction,
             lastSavedStateRef |-> currentHash]

\* the slides history effect without the isMutatingRef check
slidesHistoryEffect_whileMutating(ss, hist, hi, hiRef, flag, mutating, lastSaved) ==
    LET same == [history |-> hist, historyIndex |-> hi,
                 isUndoRedoAction |-> flag, lastSavedStateRef |-> lastSaved]
        currentHash == computeSlidesHash(ss)
        r == addToHistory(ss, hist, hi, hiRef, flag)
    IN IF Len(ss) = 0 THEN same
       ELSE IF flag
            THEN [same EXCEPT !.lastSavedStateRef = currentHash,
                              !.isUndoRedoAction = FALSE]
       ELSE IF lastSaved # currentHash
            THEN [history |-> r.history, historyIndex |-> r.historyIndex,
                  isUndoRedoAction |-> r.isUndoRedoAction,
                  lastSavedStateRef |-> currentHash]
       ELSE same

\* the effect on [slides] "Track slides changes for history": what it does to
\* history, cursor, isUndoRedoAction and lastSavedStateRef when it runs with
\* the rendered slides ss
slidesHistoryEffect(ss, hist, hi, hiRef, flag, mutating, lastSaved) ==
    LET same == [history |-> hist, historyIndex |-> hi,
                 isUndoRedoAction |-> flag, lastSavedStateRef |-> lastSaved]
        currentHash == computeSlidesHash(ss)
    IN IF Len(ss) = 0 THEN same
       ELSE IF mutating THEN same
       ELSE IF flag
            THEN [same EXCEPT !.lastSavedStateRef = currentHash,
                              !.isUndoRedoAction = FALSE]
       ELSE IF lastSaved # currentHash
            THEN LET r == addToHistory(ss, hist, hi, hiRef, flag)
                 IN [history |-> r.history, historyIndex |-> r.historyIndex,
                     isUndoRedoAction |-> r.isUndoRedoAction,
                     lastSavedStateRef |-> currentHash]
       ELSE same

\* pushSnapshot(), run by the settle timer of a drag or resize
pushSnapshot(latestSlides, hist, hi, hiRef, flag, lastSaved) ==
    LET same == [history |-> hist, historyIndex |-> hi,
                 isUndoRedoAction |-> flag, lastSavedStateRef |-> lastSaved]
        hash == computeSlidesHash(latestSlides)
    IN IF Len(latestSlides) = 0 THEN same
       ELSE IF lastSaved # hash
            THEN LET r == addToHistory(latestSlides, hist, hi, hiRef, flag)
                 IN [history |-> r.history, historyIndex |-> r.historyIndex,
                     isUndoRedoAction |-> r.isUndoRedoAction,
                     lastSavedStateRef |-> hash]
       ELSE same

-----------------------------------------------------------------------------
(* Persistence *)

\* persistCurrentState() storing the index of the newest entry as the cursor
persistCurrentState_newestIndex(slRef, design, name, hRef, hiRef) ==
    LET trimmedHistory == SliceFrom(hRef, Len(hRef) - HISTORY_PERSIST_LIMIT)
    IN [present |-> TRUE,
        slides |-> deepCloneSlides(slRef),
        design |-> design,
        fileName |-> name,
        history |-> [i \in 1..Len(trimmedHistory) |-> deepCloneSlides(trimmedHistory[i])],
        historyIndex |-> Max(Len(trimmedHistory) - 1, 0)]

\* persistCurrentState(): the document handed to savePresentationData
persistCurrentState(slRef, design, name, hRef, hiRef) ==
    LET totalEntries == Len(hRef)
        startIndex == IF totalEntries > HISTORY_PERSIST_LIMIT
                      THEN totalEntries - HISTORY_PERSIST_LIMIT ELSE 0
        trimmedHistory == SliceFrom(hRef, startIndex)
        historySnapshot ==
            [i \in 1..Len(trimmedHistory) |-> deepCloneSlides(trimmedHistory[i])]
        relativeIndex == Max(hiRef - startIndex, 0)
    IN [present |-> TRUE,
        slides |-> deepCloneSlides(slRef),
        design |-> design,
        fileName |-> name,
        history |-> historySnapshot,
        historyIndex |-> Min(relativeIndex, Max(Len(historySnapshot) - 1, 0))]

\* savePresentation() leaving the pending save timer alone
savePresentation_keepsTimer(pending, slRef, design, name, hRef, hiRef) ==
    [storage |-> persistCurrentState(slRef, design, name, hRef, hiRef),
     persistenceTimeoutRef |-> pending]

\* savePresentation(), up to the export: a pending save timer is cleared and
\* persistCurrentState() called
savePresentation(pending, slRef, design, name, hRef, hiRef) ==
    [storage |-> persistCurrentState(slRef, design, name, hRef, hiRef),
     persistenceTimeoutRef |-> FALSE]

\* the cleanup of the effect on [persistCurrentState]: a pending save timer
\* is cleared and persistCurrentState() called; store is what storage holds
persistenceCleanup(pending, store, slRef, design, name, hRef, hiRef) ==
    IF pending
    THEN [storage |-> persistCurrentState(slRef, design, name, hRef, hiRef),
          persistenceTimeoutRef |-> FALSE, writes |-> 1]
    ELSE [storage |-> store, persistenceTimeoutRef |-> FALSE, writes |-> 0]

-----------------------------------------------------------------------------
(* The React commit that follows an event *)

\* the record kept in lastOp: the event, whether it took effect (ok), whether
\* it left the slides content-identical (same), the storage writes of its
\* commit, the event before it (after, kept by redo, and by undo when that
\* event set the selection), the slides before it
\* (pre, kept by undo, redo and the deck events), the active index before
\* it (csi), the indices given to a deck event (a, b) and, when it committed
\* a snapshot, the number of history entries there were after the cursor
\* (cut)
Op(name, a, b, ok) ==
    [op |-> name, ok |-> ok, same |-> TRUE, writes |-> 0, after |-> "",
     pre |-> << >>, csi |-> currentSlideIndex, a |-> 0, b |-> 0, cut |-> 0]

\* the entries after the cursor hi of hist when the commit that left h2 and
\* hi2 appended a snapshot, 0 when it appended none
EntriesCut(hist, hi, h2, hi2) ==
    IF (h2 # hist \/ hi2 # hi) /\ hi < Len(hist) THEN Len(hist) - 1 - hi ELSE 0

\* the events that only set the selection
SelectionOps == {"elementClick", "textFocus"}

\* the record of a deck event
DeckOp(name, a, b, ok) ==
    [Op(name, a, b, ok) EXCEPT !.pre = slides, !.a = a, !.b = b]

\* Commit(op, s2, changed, hi2, csi2, des2, fn2, flag2): the handler has set
\* slides to s2 (changed: to a new array), historyIndex to hi2,
\* currentSlideIndex to csi2, activeDesign to des2, fileName to fn2 and
\* isUndoRedoAction to flag2.  The render changes persistCurrentState when one
\* of its dependencies changed; then the effects run: first the cleanup
\* of the persistence effect (a pending save is flushed with the closure and
\* the refs of the previous render), then historyIndexRef, the slides history
\* effect, slidesRef and schedulePersistence; the render caused by
\* addToHistory synchronises historyRef and historyIndexRef.  When slides or
\* currentSlideIndex changed, captureThumbnail changes too: the cleanup of the
\* thumbnail effect cancels the frame and the debounce timer, and the effect
\* starts the debounce timer again.
Commit(op, s2, changed, hi2, csi2, des2, fn2, flag2) ==
    LET depsChanged == \/ changed
                       \/ csi2 # currentSlideIndex
                       \/ des2 # activeDesign
                       \/ fn2 # fileName
        flush == depsChanged /\ persistenceTimeoutRef
        eff == IF changed
               THEN slidesHistoryEffect(s2, history, hi2, hi2, flag2,
                                        isMutatingRef, lastSavedStateRef)
               ELSE [history |-> history, historyIndex |-> hi2,
                     isUndoRedoAction |-> flag2,
                     lastSavedStateRef |-> lastSavedStateRef]
    IN /\ slides' = s2
       /\ currentSlideIndex' = csi2
       /\ activeDesign' = des2
       /\ fileName' = fn2
       /\ history' = eff.history
       /\ historyIndex' = eff.historyIndex
       /\ historyRef' = eff.history
       /\ historyIndexRef' = eff.historyIndex
       /\ slidesRef' = s2
       /\ isUndoRedoAction' = eff.isUndoRedoAction
       /\ lastSavedStateRef' = eff.lastSavedStateRef
       /\ storage' = IF flush
                     THEN persistCurrentState(slidesRef, activeDesign, fileName,
                                              historyRef, historyIndexRef)
                     ELSE storage
       /\ persistenceTimeoutRef' = (depsChanged \/ persistenceTimeoutRef)
       /\ persistenceTimeouts' =
             IF depsChanged
             THEN clearThenSet(persistenceTimeoutRef, persistenceTimeouts)
             ELSE persistenceTimeouts
       /\ thumbnailTimeouts' =
             IF changed \/ csi2 # currentSlideIndex
             THEN clearThenSet(thumbnailDebounceTimeout, thumbnailTimeouts)
             ELSE thumbnailTimeouts
       /\ thumbnailCaptureFrame' = IF changed \/ csi2 # currentSlideIndex
                                   THEN NoFrame ELSE thumbnailCaptureFrame
       /\ thumbnailDebounceTimeout' = \/ changed
                                      \/ csi2 # currentSlideIndex
                                      \/ thumbnailDebounceTimeout
       /\ lastOp' = [op EXCEPT !.writes = IF flush THEN 1 ELSE 0,
                               !.same = (computeSlidesHash(s2) = computeSlidesHash(slides)),
                               !.cut = EntriesCut(history, hi2, eff.history,
                                                  eff.historyIndex)]

-----------------------------------------------------------------------------
(* Selection and toolbars *)

uiVars == << selectedElement, editingTextId, shapeToolbarPosition,
             chartToolbarPosition, imageToolbarPosition >>

\* the variables of the insertion of an element and of a duplicate
insertVars == << keepInsertEnabled, pendingInsert, pendingInsertPos,
                randomState, imageRead >>

\* the thumbnails and the captures that will still deliver one
shotVars == << thumbnails, inFlight >>

\* the slideshow and the life of the component
showVars == << isSlideshow, slideshowIntervalRef, mounted >>

\* the two timers of the thumbnail capture
thumbTimers == << thumbnailDebounceTimeout, thumbnailTimeouts,
                 thumbnailCaptureFrame >>

\* the effect on [currentSlide, selectedElement] followed by the effect on
\* [editingTextId, selectedElement.id], run on the content of the active
\* slide: a selection that is not on the slide is dropped, a selected shape
\* gets its toolbar anchored, text editing ends when the text is not selected
selectionEffect(content, sel, edit, shape) ==
    LET selectionStillValid ==
            sel # NoElement /\ \E j \in 1..Len(content) : content[j].id = sel.id
        sel2 == IF selectionStillValid THEN sel ELSE NoElement
        edit2 == IF selectionStillValid THEN edit ELSE NoId
    IN [selectedElement |-> sel2,
        editingTextId |-> IF edit2 # NoId /\ sel2.id # edit2 THEN NoId ELSE edit2,
        shapeToolbarPosition |->
            IF ~selectionStillValid THEN NullPos
            ELSE IF sel.type = "text" THEN NullPos
            ELSE IF sel.type = "shape" THEN Anchor
            ELSE shape]

\* the handler has set the selection state to sel, edit, shape, chart and
\* image; then the effects run on the slides of the new render
Ui(sel, edit, shape, chart, image) ==
    LET content == IF currentSlideIndex' >= 0 /\ currentSlideIndex' < Len(slides')
                   THEN slides'[currentSlideIndex' + 1].content ELSE << >>
        r == selectionEffect(content, sel, edit, shape)
    IN /\ selectedElement' = r.selectedElement
       /\ editingTextId' = r.editingTextId
       /\ shapeToolbarPosition' = r.shapeToolbarPosition
       /\ chartToolbarPosition' = chart
       /\ imageToolbarPosition' = image

\* the handler has not touched the selection state
UiKeep ==
    Ui(selectedElement, editingTextId, shapeToolbarPosition,
       chartToolbarPosition, imageToolbarPosition)

\* the resets of handleUndo / handleRedo without those of the toolbars
UiClear_keepsToolbars ==
    Ui(NoElement, NoId, shapeToolbarPosition, chartToolbarPosition,
       imageToolbarPosition)

\* setSelectedElement(null) and the other resets of handleUndo / handleRedo
UiClear == Ui(NoElement, NoId, NullPos, NullPos, NullPos)

-----------------------------------------------------------------------------
(* Document operations, as functions of the state they read *)

\* Object.is(item[key], updates[key]): chartData is an object, identical only
\* when the caller passes the very object the item holds (sameObj)
ObjectIs(item, updates, key, sameObj) ==
    IF key = "chartData" THEN sameObj /\ item[key] = updates[key]
    ELSE item[key] = updates[key]

\* needsUpdate of updateElement: some key of updates is not Object.is-equal
needsUpdate(item, updates, sameObj) ==
    \E key \in DOMAIN updates : ~ObjectIs(item, updates, key, sameObj)

\* { ...item, ...updates }
Merge(item, updates) ==
    LET v(k) == IF k \in DOMAIN updates THEN updates[k] ELSE item[k]
    IN [k \in DOMAIN item \cup DOMAIN updates |-> v(k)]

\* updateElement(elementId, updates): the setSlides updater and didMutate
updateElement(prevSlides, csi, elementId, updates, sameObj) ==
    IF csi < 0 \/ csi >= Len(prevSlides)
    THEN [slides |-> prevSlides, didMutate |-> FALSE]
    ELSE LET slide == prevSlides[csi + 1]
             hit(item) == item.id = elementId /\ DOMAIN updates # {}
                          /\ needsUpdate(item, updates, sameObj)
             updatedContent ==
                 [j \in 1..Len(slide.content) |->
                    IF hit(slide.content[j])
                    THEN Merge(slide.content[j], updates)
                    ELSE slide.content[j]]
             didMutate == \E j \in 1..Len(slide.content) : hit(slide.content[j])
         IN IF ~didMutate
            THEN [slides |-> prevSlides, didMutate |-> FALSE]
            ELSE [slides |-> [prevSlides EXCEPT ![csi + 1] =
                                [slide EXCEPT !.content = updatedContent]],
                  didMutate |-> TRUE]

\* the id `${type}-${Date.now()}-${random}` duplicateElement builds, random
\* being the digits of Math.random(): a number that tells type, t and r
\* apart (t < 100, r < 10) and is none of the ids addElement builds
duplicateId(type, t, r) ==
    LET code == CASE type = "text" -> 1 [] type = "shape" -> 2
                  [] type = "chart" -> 3 [] OTHER -> 4
    IN 1000 * code + 10 * t + r

\* duplicateElement(elementId) building the id from the type and the time only
duplicateElement_timeOnlyId(prevSlides, csi, elementId, t, r) ==
    IF csi < 0 \/ csi >= Len(prevSlides)
    THEN [slides |-> prevSlides, changed |-> FALSE]
    ELSE LET slide == prevSlides[csi + 1]
             found == { j \in 1..Len(slide.content) : slide.content[j].id = elementId }
         IN IF found = {}
            THEN [slides |-> prevSlides, changed |-> FALSE]
            ELSE LET src == slide.content[CHOOSE j \in found : \A k \in found : j <= k]
                     dup == [src EXCEPT !.id = duplicateId(src.type, t, 0),
                                        !.x = src.x + 20, !.y = src.y + 20]
                 IN [slides |-> [prevSlides EXCEPT ![csi + 1] =
                                    [slide EXCEPT !.content = Append(@, dup)]],
                     changed |-> TRUE]

\* duplicateElement(elementId): the setSlides updater, run at time t with r
\* drawn from Math.random(); changed tells whether it returned a new array
duplicateElement(prevSlides, csi, elementId, t, r) ==
    IF csi < 0 \/ csi >= Len(prevSlides)
    THEN [slides |-> prevSlides, changed |-> FALSE]
    ELSE LET slide == prevSlides[csi + 1]
             found == { j \in 1..Len(slide.content) : slide.content[j].id = elementId }
         IN IF found = {}
            THEN [slides |-> prevSlides, changed |-> FALSE]
            ELSE LET elementToDuplicate ==
                         slide.content[CHOOSE j \in found : \A k \in found : j <= k]
                     duplicatedElement ==
                         [elementToDuplicate EXCEPT
                             !.id = duplicateId(elementToDuplicate.type, t, r),
                             !.x = elementToDuplicate.x + 20,
                             !.y = elementToDuplicate.y + 20]
                 IN [slides |-> [prevSlides EXCEPT ![csi + 1] =
                                    [slide EXCEPT !.content = Append(@, duplicatedElement)]],
                     changed |-> TRUE]

\* the items of content whose id is not elementId, in their order
FilterOut(content, elementId) ==
    LET F[i \in 0..Len(content)] ==
            IF i = 0 THEN << >>
            ELSE IF content[i].id = elementId THEN F[i - 1]
            ELSE Append(F[i - 1], content[i])
    IN F[Len(content)]

\* deleteElement(elementId): the setSlides updater
deleteElement(prevSlides, csi, elementId) ==
    IF csi < 0 \/ csi >= Len(prevSlides) \/ prevSlides[csi + 1] = HoleSlide
    THEN [slides |-> prevSlides, changed |-> FALSE]
    ELSE [slides |-> [prevSlides EXCEPT ![csi + 1] =
                        [@ EXCEPT !.content = FilterOut(@, elementId)]],
          changed |-> TRUE]

\* addSlide(layoutId, insertIndex) appending whatever the insertIndex
addSlide_append(ss, layoutId, finite, insertIndex, design, t) ==
    LET clampedIndex == Len(ss)
        newSlide     == createSlide(clampedIndex, layoutId, design, t)
    IN [slides |-> Renumber(InsertAt(ss, clampedIndex, newSlide)),
        currentSlideIndex |-> clampedIndex]

\* addSlide(layoutId, insertIndex); finite = Number.isFinite(insertIndex)
addSlide(ss, layoutId, finite, insertIndex, design, t) ==
    LET targetIndex  == IF finite THEN insertIndex ELSE Len(ss)
        clampedIndex == Min(Max(targetIndex, 0), Len(ss))
        newSlide     == createSlide(clampedIndex, layoutId, design, t)
    IN [slides |-> Renumber(InsertAt(ss, clampedIndex, newSlide)),
        currentSlideIndex |-> clampedIndex]

\* deleteSlide(index) without the slides.length <= 1 guard
deleteSlide_noGuard(ss, csi, index) ==
    LET renumberedSlides == Renumber(RemoveAt(ss, index))
    IN [slides |-> renumberedSlides,
        currentSlideIndex |->
           IF Len(renumberedSlides) = 0 THEN 0
           ELSE IF csi >= Len(renumberedSlides)
                THEN Len(renumberedSlides) - 1
           ELSE IF csi > index THEN csi - 1
           ELSE csi,
        changed |-> TRUE]

\* deleteSlide(index) without the step back of an active index that follows
\* the deleted slide
deleteSlide_noShift(ss, csi, index) ==
    IF Len(ss) <= 1
    THEN [slides |-> ss, currentSlideIndex |-> csi, changed |-> FALSE]
    ELSE LET renumberedSlides == Renumber(RemoveAt(ss, index))
         IN [slides |-> renumberedSlides,
             currentSlideIndex |->
                IF Len(renumberedSlides) = 0 THEN 0
                ELSE IF csi >= Len(renumberedSlides)
                     THEN Len(renumberedSlides) - 1
                ELSE csi,
             changed |-> TRUE]

\* deleteSlide(index)
deleteSlide(ss, csi, index) ==
    IF Len(ss) <= 1
    THEN [slides |-> ss, currentSlideIndex |-> csi, changed |-> FALSE]
    ELSE LET renumberedSlides == Renumber(RemoveAt(ss, index))
         IN [slides |-> renumberedSlides,
             currentSlideIndex |->
                IF Len(renumberedSlides) = 0 THEN 0
                ELSE IF csi >= Len(renumberedSlides)
                     THEN Len(renumberedSlides) - 1
                ELSE IF csi > index THEN csi - 1
                ELSE csi,
             changed |-> TRUE]

\* moveSlide(fromIndex, toIndex) exchanging the two slides
moveSlide_swap(ss, csi, fromIndex, toIndex) ==
    IF fromIndex = toIndex \/ fromIndex >= Len(ss)
    THEN [slides |-> ss, currentSlideIndex |-> csi, changed |-> FALSE]
    ELSE LET clampedIndex == Max(0, Min(toIndex, Len(ss) - 1))
             swapped == [i \in 1..Len(ss) |->
                            IF i = fromIndex + 1 THEN ss[clampedIndex + 1]
                            ELSE IF i = clampedIndex + 1 THEN ss[fromIndex + 1]
                            ELSE ss[i]]
         IN [slides |-> Renumber(swapped),
             currentSlideIndex |->
                IF fromIndex = csi THEN clampedIndex
                ELSE IF fromIndex < csi /\ clampedIndex >= csi
                     THEN Max(0, csi - 1)
                ELSE IF fromIndex > csi /\ clampedIndex <= csi
                     THEN Min(Len(ss) - 1, csi + 1)
                ELSE csi,
             changed |-> TRUE]

\* moveSlide(fromIndex, toIndex) without the remapping of currentSlideIndex
\* for a slide moved across the active one
moveSlide_noRemap(ss, csi, fromIndex, toIndex) ==
    IF fromIndex = toIndex \/ fromIndex >= Len(ss)
    THEN [slides |-> ss, currentSlideIndex |-> csi, changed |-> FALSE]
    ELSE LET movedSlide   == ss[fromIndex + 1]
             nextSlides   == RemoveAt(ss, fromIndex)
             clampedIndex == Max(0, Min(toIndex, Len(nextSlides)))
         IN [slides |-> Renumber(InsertAt(nextSlides, clampedIndex, movedSlide)),
             currentSlideIndex |-> IF fromIndex = csi THEN clampedIndex ELSE csi,
             changed |-> TRUE]

\* moveSlide(fromIndex, toIndex), fromIndex >= 0
moveSlide(ss, csi, fromIndex, toIndex) ==
    IF fromIndex = toIndex \/ fromIndex >= Len(ss)
    THEN [slides |-> ss, currentSlideIndex |-> csi, changed |-> FALSE]
    ELSE LET movedSlide   == ss[fromIndex + 1]
             nextSlides   == RemoveAt(ss, fromIndex)
             clampedIndex == Max(0, Min(toIndex, Len(nextSlides)))
             renumberedSlides ==
                 Renumber(InsertAt(nextSlides, clampedIndex, movedSlide))
         IN [slides |-> renumberedSlides,
             currentSlideIndex |->
                IF fromIndex = csi THEN clampedIndex
                ELSE IF fromIndex < csi /\ clampedIndex >= csi
                     THEN Max(0, csi - 1)
                ELSE IF fromIndex > csi /\ clampedIndex <= csi
                     THEN Min(Len(renumberedSlides) - 1, csi + 1)
                ELSE csi,
             changed |-> TRUE]

\* handleDrop(index) of SlidePanel: the call of moveSlide it makes, if any;
\* sourceIndex is the dragged thumbnail, dropAfter the half it is dropped on
handleDrop(ss, sourceIndex, index, dropAfter) ==
    IF sourceIndex < 0 \/ sourceIndex >= Len(ss)
    THEN [call |-> FALSE, from |-> 0, to |-> 0]
    ELSE LET t0 == IF dropAfter THEN index + 1 ELSE index
             targetIndex == IF t0 > Len(ss) THEN Len(ss) ELSE t0
             finalIndex == IF sourceIndex < targetIndex
                           THEN Max(0, targetIndex - 1)
                           ELSE Min(targetIndex, Len(ss) - 1)
         IN [call |-> finalIndex # sourceIndex,
             from |-> sourceIndex, to |-> finalIndex]

-----------------------------------------------------------------------------
(* Events *)

\* the variables no commit touches
gestureVars == << isMutatingRef, endMutatingTimeoutRef, endMutatingTimeouts, rnd >>

\* the record kept in gesture: the kind and element of the gesture, whether
\* it started with no settle timer pending (fresh), whether no event other
\* than its own has come since it started (clean), the history and cursor
\* when it started, whether it has stopped, whether the raw final geometry
\* differs from the start (raw), whether updateElement mutated (moved), the
\* updates it was given and, when it started while the settle timer of a
\* gesture that was fresh and clean was pending, that gesture (prev)
NoGesture == [kind |-> "none"]

\* an event that is not part of a gesture leaves the gesture state alone
Bystander ==
    /\ UNCHANGED gestureVars
    /\ gesture' = IF isMutatingRef /\ gesture.kind # "none"
                  THEN [gesture EXCEPT !.clean = FALSE] ELSE NoGesture

\* the item of the active slide at 1-based position j
CurrentContent == IF currentSlideIndex >= 0 /\ currentSlideIndex < Len(slides)
                  THEN slides[currentSlideIndex + 1].content ELSE << >>

\* a commit in which no state changed
NoChange(op) ==
    Commit(op, slides, FALSE, historyIndex, currentSlideIndex, activeDesign,
           fileName, isUndoRedoAction)

\* a commit in which only the slides (and perhaps the active index) changed
SlidesChange(op, s2, changed, csi2) ==
    Commit(op, s2, changed, historyIndex, csi2, activeDesign, fileName,
           isUndoRedoAction)

\* handleUndo() without the historyIndex > 0 test: at index 0 it restores
\* the entry under the cursor
handleUndo_noGuard(hist, hi, ss, flag) ==
    [ok |-> TRUE, slides |-> deepCloneSlides(hist[Max(hi, 1)]),
     historyIndex |-> Max(hi - 1, 0), isUndoRedoAction |-> TRUE]

\* handleUndo() without isUndoRedoAction.current = true
handleUndo_noFlag(hist, hi, ss, flag) ==
    IF hi > 0 /\ hi - 1 < Len(hist)
    THEN [ok |-> TRUE, slides |-> deepCloneSlides(hist[hi]),
          historyIndex |-> hi - 1, isUndoRedoAction |-> flag]
    ELSE [ok |-> FALSE, slides |-> ss, historyIndex |-> hi,
          isUndoRedoAction |-> flag]

\* handleUndo(): what it does to slides, historyIndex and isUndoRedoAction
handleUndo(hist, hi, ss, flag) ==
    IF hi > 0 /\ hi - 1 < Len(hist)
    THEN [ok |-> TRUE, slides |-> deepCloneSlides(hist[hi]),
          historyIndex |-> hi - 1, isUndoRedoAction |-> TRUE]
    ELSE [ok |-> FALSE, slides |-> ss, historyIndex |-> hi,
          isUndoRedoAction |-> flag]

\* handleRedo() restoring history[historyIndex] instead of the next entry
handleRedo_offByOne(hist, hi, ss, flag) ==
    IF hi < Len(hist) - 1
    THEN [ok |-> TRUE, slides |-> deepCloneSlides(hist[hi + 1]),
          historyIndex |-> hi + 1, isUndoRedoAction |-> TRUE]
    ELSE [ok |-> FALSE, slides |-> ss, historyIndex |-> hi,
          isUndoRedoAction |-> flag]

\* handleRedo()
handleRedo(hist, hi, ss, flag) ==
    IF hi < Len(hist) - 1
    THEN [ok |-> TRUE, slides |-> deepCloneSlides(hist[hi + 2]),
          historyIndex |-> hi + 1, isUndoRedoAction |-> TRUE]
    ELSE [ok |-> FALSE, slides |-> ss, historyIndex |-> hi,
          isUndoRedoAction |-> flag]

\* Ctrl+Z or the undo button
HandleUndo ==
    /\ LET r == handleUndo(history, historyIndex, slides, isUndoRedoAction)
       IN Commit([Op("undo", 0, 0, r.ok) EXCEPT
                     !.pre = slides,
                     !.after = IF lastOp.op \in SelectionOps THEN lastOp.op ELSE ""],
                 r.slides, r.ok, r.historyIndex, currentSlideIndex,
                 activeDesign, fileName, r.isUndoRedoAction)
    /\ IF handleUndo(history, historyIndex, slides, isUndoRedoAction).ok
       THEN UiClear ELSE UNCHANGED uiVars
    /\ Bystander /\ UNCHANGED << now, insertVars, shotVars, showVars >>

\* Ctrl+Y or the redo button
HandleRedo ==
    /\ LET r == handleRedo(history, historyIndex, slides, isUndoRedoAction)
       IN Commit([Op("redo", 0, 0, r.ok) EXCEPT
                     !.after = lastOp.op,
                     !.pre = IF lastOp.op = "undo" /\ lastOp.ok
                             THEN lastOp.pre ELSE << >>],
                 r.slides, r.ok, r.historyIndex, currentSlideIndex,
                 activeDesign, fileName, r.isUndoRedoAction)
    /\ IF handleRedo(history, historyIndex, slides, isUndoRedoAction).ok
       THEN UiClear ELSE UNCHANGED uiVars
    /\ Bystander /\ UNCHANGED << now, insertVars, shotVars, showVars >>

\* updateElement(elementId, updates) called by the text editor, the chart
\* editor or a toolbar
UpdateElement(elementId, updates, sameObj) ==
    /\ rnd = NoRnd
    /\ LET r == updateElement(slides, currentSlideIndex, elementId, updates, sameObj)
       IN /\ SlidesChange(Op("updateElement", elementId, 0, r.didMutate),
                          r.slides, r.didMutate, currentSlideIndex)
          /\ IF r.didMutate THEN UiKeep ELSE UNCHANGED uiVars
    /\ Bystander /\ UNCHANGED << now, insertVars, shotVars, showVars >>

\* handleDragStart(element) / handleResizeStart(element), element the item at
\* position j of the active slide
GestureStart(kind, j) ==
    /\ rnd = NoRnd
    /\ j \in 1..Len(CurrentContent)
    /\ LET e == CurrentContent[j]
       IN /\ rnd' = [kind |-> kind, id |-> e.id, x |-> 4 * e.x, y |-> 4 * e.y,
                     width |-> e.width, height |-> e.height]
          /\ NoChange(Op(kind \o "Start", e.id, 0, TRUE))
          /\ gesture' = [kind |-> kind, id |-> e.id,
                         fresh |-> ~endMutatingTimeoutRef, clean |-> TRUE,
                         hist |-> history, idx |-> historyIndex,
                         stopped |-> FALSE, raw |-> FALSE, moved |-> FALSE,
                         updates |-> << >>,
                         prev |-> IF /\ endMutatingTimeoutRef
                                     /\ gesture.kind # "none"
                                     /\ gesture.fresh /\ gesture.clean
                                  THEN [kind |-> gesture.kind, id |-> gesture.id,
                                        moved |-> gesture.moved,
                                        updates |-> gesture.updates]
                                  ELSE NoGesture]
          /\ Ui([id |-> e.id, type |-> e.type],
                IF editingTextId = e.id THEN NoId ELSE editingTextId,
                IF e.type = "text" THEN NullPos
                ELSE IF e.type = "shape" THEN Anchor
                ELSE shapeToolbarPosition,
                chartToolbarPosition, imageToolbarPosition)
    /\ isMutatingRef' = TRUE
    /\ endMutatingTimeoutRef' = FALSE
    /\ endMutatingTimeouts' = clearTimeout(endMutatingTimeoutRef, endMutatingTimeouts)
    /\ UNCHANGED << now, insertVars, shotVars, showVars >>

\* an intermediate pointer position of a drag: only the primitive sees it
DragMove(px, py) ==
    /\ rnd.kind = "drag"
    /\ rnd' = [rnd EXCEPT !.x = px, !.y = py]
    /\ NoChange(Op("dragMove", rnd.id, 0, TRUE))
    /\ UNCHANGED << isMutatingRef, endMutatingTimeoutRef, endMutatingTimeouts,
                    now, gesture, uiVars, insertVars, shotVars, showVars >>

\* an intermediate size of a resize
ResizeMove(w, h, px, py) ==
    /\ rnd.kind = "resize"
    /\ rnd' = [rnd EXCEPT !.width = w, !.height = h, !.x = px, !.y = py]
    /\ NoChange(Op("resizeMove", rnd.id, 0, TRUE))
    /\ UNCHANGED << isMutatingRef, endMutatingTimeoutRef, endMutatingTimeouts,
                    now, gesture, uiVars, insertVars, shotVars, showVars >>

\* the updates handleDragStop / handleResizeStop pass to updateElement
handleDragStopUpdates(position) ==
    [x |-> MathRound(position.x), y |-> MathRound(position.y)]

handleResizeStopUpdates(position) ==
    [width |-> position.width, height |-> position.height,
     x |-> MathRound(position.x), y |-> MathRound(position.y)]

\* handleDragStop(element, position) / handleResizeStop(element, ..., position)
GestureStop ==
    /\ rnd # NoRnd
    /\ LET updates == IF rnd.kind = "drag" THEN handleDragStopUpdates(rnd)
                      ELSE handleResizeStopUpdates(rnd)
           r == updateElement(slides, currentSlideIndex, rnd.id, updates, TRUE)
       IN /\ SlidesChange(Op(rnd.kind \o "Stop", rnd.id, 0, r.didMutate),
                          r.slides, r.didMutate, currentSlideIndex)
          /\ gesture' = [gesture EXCEPT
                            !.stopped = TRUE,
                            !.raw = \E e \in RangeOf(CurrentContent) :
                                       /\ e.id = rnd.id
                                       /\ << rnd.x, rnd.y, rnd.width, rnd.height >>
                                            # << 4 * e.x, 4 * e.y, e.width, e.height >>,
                            !.moved = r.didMutate,
                            !.updates = updates]
          /\ LET isShape == \E e \in RangeOf(CurrentContent) :
                                e.id = rnd.id /\ e.type = "shape"
                 shape == IF isShape THEN Anchor ELSE shapeToolbarPosition
             IN IF r.didMutate
                THEN Ui(selectedElement, editingTextId, shape,
                        chartToolbarPosition, imageToolbarPosition)
                ELSE /\ shapeToolbarPosition' = shape
                     /\ UNCHANGED << selectedElement, editingTextId,
                                     chartToolbarPosition, imageToolbarPosition >>
    /\ rnd' = NoRnd
    /\ endMutatingTimeoutRef' = TRUE
    /\ endMutatingTimeouts' = clearThenSet(endMutatingTimeoutRef, endMutatingTimeouts)
    /\ UNCHANGED << isMutatingRef, now, insertVars, shotVars, showVars >>

\* the 200ms timer set by handleDragStop / handleResizeStop fires
SettleTimer ==
    /\ endMutatingTimeoutRef
    /\ LET r == pushSnapshot(slidesRef, history, historyIndex, historyIndexRef,
                             isUndoRedoAction, lastSavedStateRef)
       IN /\ history' = r.history
          /\ historyIndex' = r.historyIndex
          /\ historyRef' = r.history
          /\ historyIndexRef' = r.historyIndex
          /\ isUndoRedoAction' = r.isUndoRedoAction
          /\ lastSavedStateRef' = r.lastSavedStateRef
    /\ isMutatingRef' = FALSE
    /\ endMutatingTimeoutRef' = FALSE
    /\ endMutatingTimeouts' = endMutatingTimeouts - 1
    /\ lastOp' = [Op("settleTimer", 0, 0, TRUE) EXCEPT
                     !.cut = EntriesCut(history, historyIndex, history',
                                        historyIndex')]
    /\ UNCHANGED << slides, currentSlideIndex, activeDesign, fileName, slidesRef,
                    persistenceTimeoutRef, persistenceTimeouts, storage, rnd,
                    now, gesture, uiVars, insertVars, shotVars, showVars,
                    thumbTimers >>

\* the 700ms timer of schedulePersistence firing without the call of
\* persistCurrentState
PersistTimer_noWrite ==
    /\ persistenceTimeoutRef
    /\ persistenceTimeoutRef' = FALSE
    /\ persistenceTimeouts' = persistenceTimeouts - 1
    /\ lastOp' = Op("persistTimer", 0, 0, TRUE)
    /\ UNCHANGED << slides, currentSlideIndex, activeDesign, fileName, history,
                    historyIndex, historyRef, historyIndexRef, slidesRef,
                    isUndoRedoAction, lastSavedStateRef, gestureVars, now,
                    gesture, uiVars, insertVars, shotVars, showVars,
                    thumbTimers, storage >>

\* the 700ms timer set by schedulePersistence fires
PersistTimer ==
    /\ persistenceTimeoutRef
    /\ persistenceTimeoutRef' = FALSE
    /\ persistenceTimeouts' = persistenceTimeouts - 1
    /\ storage' = persistCurrentState(slidesRef, activeDesign, fileName,
                                      historyRef, historyIndexRef)
    /\ lastOp' = [Op("persistTimer", 0, 0, TRUE) EXCEPT !.writes = 1]
    /\ UNCHANGED << slides, currentSlideIndex, activeDesign, fileName, history,
                    historyIndex, historyRef, historyIndexRef, slidesRef,
                    isUndoRedoAction, lastSavedStateRef, gestureVars, now,
                    gesture, uiVars, insertVars, shotVars, showVars,
                    thumbTimers >>

\* addSlide(layoutId, insertIndex) from the slide panel; createSlide reads
\* Date.now(), which has advanced by dt since it was last read
AddSlide(finite, insertIndex, dt) ==
    /\ rnd = NoRnd
    /\ now' = now + dt
    /\ LET r == addSlide(slides, "title", finite, insertIndex, activeDesign, now + dt)
       IN SlidesChange(DeckOp("addSlide", insertIndex, IF finite THEN 1 ELSE 0, TRUE),
                       r.slides, TRUE, r.currentSlideIndex)
    /\ UiKeep
    /\ Bystander /\ UNCHANGED << insertVars, shotVars, showVars >>

\* deleteSlide(index) from the slide panel
DeleteSlide(index) ==
    /\ rnd = NoRnd
    /\ LET r == deleteSlide(slides, currentSlideIndex, index)
       IN /\ SlidesChange(DeckOp("deleteSlide", index, 0, r.changed), r.slides,
                          r.changed, r.currentSlideIndex)
          /\ IF r.changed THEN UiKeep ELSE UNCHANGED uiVars
    /\ Bystander /\ UNCHANGED << now, insertVars, shotVars, showVars >>

\* moveSlide(fromIndex, toIndex)
MoveSlide(fromIndex, toIndex) ==
    /\ rnd = NoRnd
    /\ LET r == moveSlide(slides, currentSlideIndex, fromIndex, toIndex)
       IN /\ SlidesChange(DeckOp("moveSlide", fromIndex, toIndex, r.changed),
                          r.slides, r.changed, r.currentSlideIndex)
          /\ IF r.changed THEN UiKeep ELSE UNCHANGED uiVars
    /\ Bystander /\ UNCHANGED << now, insertVars, shotVars, showVars >>

\* a thumbnail dropped on thumbnail index in the slide panel
HandleDrop(sourceIndex, index, dropAfter) ==
    /\ rnd = NoRnd
    /\ LET d == handleDrop(slides, sourceIndex, index, dropAfter)
           r == moveSlide(slides, currentSlideIndex, d.from, d.to)
       IN IF d.call
          THEN /\ SlidesChange(DeckOp("dropMove", d.from, d.to, r.changed),
                               r.slides, r.changed, r.currentSlideIndex)
               /\ IF r.changed THEN UiKeep ELSE UNCHANGED uiVars
          ELSE /\ NoChange(Op("handleDrop", sourceIndex, index, FALSE))
               /\ UNCHANGED uiVars
    /\ Bystander /\ UNCHANGED << now, insertVars, shotVars, showVars >>

\* applyDesignPreset(designId)
ApplyDesignPreset(d) ==
    /\ rnd = NoRnd
    /\ Commit(Op("applyDesignPreset", d, 0, TRUE),
              [i \in 1..Len(slides) |-> applyDesignToSlide(slides[i], d)], TRUE,
              historyIndex, currentSlideIndex, d, fileName, isUndoRedoAction)
    /\ UiKeep
    /\ Bystander /\ UNCHANGED << now, insertVars, shotVars, showVars >>

\* onFileNameChange = setFileName
SetFileName(name) ==
    /\ rnd = NoRnd
    /\ Commit(Op("setFileName", 0, 0, name # fileName), slides, FALSE,
              historyIndex, currentSlideIndex, activeDesign, name,
              isUndoRedoAction)
    /\ Bystander /\ UNCHANGED << now, uiVars, insertVars, shotVars, showVars >>

\* clearThumbnail(activeSlide.id), activeSlide = slidesRef.current[index]
clearThumbnail(prev, slRef, index) ==
    IF /\ index >= 0 /\ index < Len(slRef)
       /\ slRef[index + 1].id > 0
       /\ slRef[index + 1].id \in DOMAIN prev
    THEN [i \in DOMAIN prev \ {slRef[index + 1].id} |-> prev[i]]
    ELSE prev

\* updateSlide(index, updatedSlide): nextSlides[index] = updatedSlide
updateSlide(prevSlides, index, updatedSlide) ==
    [i \in 1..Max(Len(prevSlides), index + 1) |->
        IF i = index + 1 THEN updatedSlide
        ELSE IF i <= Len(prevSlides) THEN prevSlides[i]
        ELSE HoleSlide]

\* the element addElement(type, subtype) builds for a text, a shape or a
\* chart
addElementNew(type, subtype, t, design) ==
    CASE type = "chart" ->
           LET chartType    == IF subtype = "" THEN "bar" ELSE subtype
               defaultChart == createDefaultChartData(chartType)
               dimensions   == CHART_DIMENSIONS(chartType)
           IN [id |-> t, type |-> "chart", x |-> 120, y |-> 120,
               width |-> dimensions.width, height |-> dimensions.height,
               chartType |-> chartType,
               chartData |-> [defaultChart EXCEPT
                   !.datasets = accentDatasets(defaultChart.datasets, design)]]
      [] type = "text" -> Element(t, "text", 120, 120, 320, 60, NoChart)
      [] OTHER -> Element(t, "shape", 120, 120, 160, 100, NoChart)

\* addElement(type, subtype) from the toolbar, type text, shape or chart;
\* the id is read from Date.now(), which has advanced by dt since it was last
\* read
AddElement(type, subtype, dt) ==
    /\ rnd = NoRnd
    /\ now' = now + dt
    /\ LET newElement == addElementNew(type, subtype, now + dt, activeDesign)
           updatedSlide ==
               IF currentSlideIndex < Len(slides)
               THEN [slides[currentSlideIndex + 1] EXCEPT
                        !.content = Append(@, newElement)]
               ELSE NoIdSlide(<< newElement >>)
       IN /\ SlidesChange(Op("addElement", now + dt, 0, TRUE),
                          updateSlide(slides, currentSlideIndex, updatedSlide),
                          TRUE, currentSlideIndex)
          /\ Ui([id |-> newElement.id, type |-> newElement.type],
                IF type = "text" THEN newElement.id ELSE editingTextId,
                shapeToolbarPosition, chartToolbarPosition, imageToolbarPosition)
    /\ pendingInsert' = NoInsert
    /\ pendingInsertPos' = NoId
    /\ Bystander
    /\ UNCHANGED << keepInsertEnabled, randomState, imageRead, shotVars, showVars >>

\* addElement('image'): the id is fixed and the file picker opened
AddImage(dt) ==
    /\ rnd = NoRnd
    /\ now' = now + dt
    /\ pendingInsertPos' = now + dt
    /\ NoChange(Op("addImage", now + dt, 0, TRUE))
    /\ Bystander
    /\ UNCHANGED << uiVars, keepInsertEnabled, pendingInsert, randomState, imageRead,
                    shotVars, showVars >>

\* the image element handleImageFileChange builds once the file has loaded
imageElement(id) == Element(id, "image", 120, 120, 400, 300, NoChart)

\* handleImageFileChange with a file chosen, up to img.onload, when the file
\* is read and decoded before any other event
HandleImageFileChange ==
    /\ rnd = NoRnd
    /\ pendingInsertPos # NoId
    /\ LET newElement == imageElement(pendingInsertPos)
           updatedSlide ==
               IF currentSlideIndex < Len(slides)
               THEN [slides[currentSlideIndex + 1] EXCEPT
                        !.content = Append(@, newElement)]
               ELSE NoIdSlide(<< newElement >>)
       IN /\ SlidesChange(Op("addElement", pendingInsertPos, 0, TRUE),
                          updateSlide(slides, currentSlideIndex, updatedSlide),
                          TRUE, currentSlideIndex)
          /\ Ui([id |-> newElement.id, type |-> newElement.type], editingTextId,
                shapeToolbarPosition, chartToolbarPosition, imageToolbarPosition)
    /\ pendingInsertPos' = NoId
    /\ pendingInsert' = IF keepInsertEnabled THEN pendingInsert ELSE NoInsert
    /\ thumbnails' = clearThumbnail(thumbnails, slidesRef, currentSlideIndex)
    /\ Bystander
    /\ UNCHANGED << now, keepInsertEnabled, randomState, imageRead, inFlight, showVars >>

\* handleImageFileChange with a file chosen: the reader is started; its
\* callbacks close over insertInfo and over currentSlide, currentSlideIndex
\* and keepInsertEnabled of the render the handler belongs to
ImageFileChosen ==
    /\ rnd = NoRnd
    /\ pendingInsertPos # NoId
    /\ ~imageRead.pending
    /\ imageRead' = [pending |-> TRUE,
                     insertInfo |-> pendingInsertPos,
                     currentSlideIndex |-> currentSlideIndex,
                     inRange |-> currentSlideIndex < Len(slides),
                     currentSlide |-> IF currentSlideIndex < Len(slides)
                                      THEN slides[currentSlideIndex + 1]
                                      ELSE NoIdSlide(<< >>),
                     keepInsertEnabled |-> keepInsertEnabled]
    /\ NoChange(Op("imageFileChosen", pendingInsertPos, 0, TRUE))
    /\ Bystander
    /\ UNCHANGED << now, uiVars, keepInsertEnabled, pendingInsert,
                    pendingInsertPos, randomState, shotVars, showVars >>

\* img.onload of the image read by handleImageFileChange
ImageLoaded ==
    /\ rnd = NoRnd
    /\ imageRead.pending
    /\ LET newElement == imageElement(imageRead.insertInfo)
           updatedSlide ==
               IF imageRead.inRange
               THEN [imageRead.currentSlide EXCEPT !.content = Append(@, newElement)]
               ELSE NoIdSlide(<< newElement >>)
       IN /\ SlidesChange(Op("imageLoaded", imageRead.insertInfo, 0, TRUE),
                          updateSlide(slides, imageRead.currentSlideIndex,
                                      updatedSlide),
                          TRUE, currentSlideIndex)
          /\ Ui([id |-> newElement.id, type |-> newElement.type], editingTextId,
                shapeToolbarPosition, chartToolbarPosition, imageToolbarPosition)
    /\ pendingInsertPos' = NoId
    /\ pendingInsert' = IF imageRead.keepInsertEnabled THEN pendingInsert
                        ELSE NoInsert
    /\ thumbnails' = clearThumbnail(thumbnails, slidesRef,
                                    imageRead.currentSlideIndex)
    /\ imageRead' = NoRead
    /\ Bystander
    /\ UNCHANGED << now, keepInsertEnabled, randomState, inFlight, showVars >>

\* duplicateElement(elementId) from a toolbar; Date.now() has advanced by dt
DuplicateElement(elementId, dt) ==
    /\ rnd = NoRnd
    /\ now' = now + dt
    /\ LET r == duplicateElement(slides, currentSlideIndex, elementId, now + dt,
                                 randomState)
       IN /\ SlidesChange([Op("duplicateElement", elementId, 0, r.changed)
                              EXCEPT !.a = elementId],
                          r.slides, r.changed, currentSlideIndex)
          /\ randomState' = IF r.changed THEN randomState + 1 ELSE randomState
          /\ UNCHANGED imageRead
          /\ IF r.changed THEN UiKeep ELSE UNCHANGED uiVars
    /\ Bystander
    /\ UNCHANGED << keepInsertEnabled, pendingInsert, pendingInsertPos,
                    shotVars, showVars >>

\* deleteElement(elementId) from a toolbar or the keyboard
DeleteElement(elementId) ==
    /\ rnd = NoRnd
    /\ LET r == deleteElement(slides, currentSlideIndex, elementId)
           hit == selectedElement.id = elementId
       IN /\ SlidesChange([Op("deleteElement", elementId, 0, r.changed)
                              EXCEPT !.a = elementId],
                          r.slides, r.changed, currentSlideIndex)
          /\ Ui(IF hit THEN NoElement ELSE selectedElement, editingTextId,
                IF hit THEN NullPos ELSE shapeToolbarPosition,
                IF hit THEN NullPos ELSE chartToolbarPosition,
                imageToolbarPosition)
    /\ Bystander /\ UNCHANGED << now, insertVars, shotVars, showVars >>

\* handleElementClick on the item at position j of the active slide
ElementClick(j) ==
    /\ rnd = NoRnd
    /\ j \in 1..Len(CurrentContent)
    /\ NoChange(Op("elementClick", j, 0, TRUE))
    /\ LET e == CurrentContent[j]
       IN Ui([id |-> e.id, type |-> e.type], editingTextId,
             CASE e.type = "shape" -> Anchor
               [] e.type \in {"chart", "image"} -> NullPos
               [] OTHER -> shapeToolbarPosition,
             IF e.type = "chart" THEN Anchor ELSE chartToolbarPosition,
             CASE e.type = "image" -> Anchor
               [] e.type \in {"chart", "shape"} -> NullPos
               [] OTHER -> imageToolbarPosition)
    /\ Bystander /\ UNCHANGED << now, insertVars, shotVars, showVars >>

\* onFocus of the editor of the text item at position j of the active slide
TextFocus(j) ==
    /\ rnd = NoRnd
    /\ j \in 1..Len(CurrentContent)
    /\ CurrentContent[j].type = "text"
    /\ NoChange(Op("textFocus", j, 0, TRUE))
    /\ Ui([id |-> CurrentContent[j].id, type |-> "text"], CurrentContent[j].id,
          shapeToolbarPosition, chartToolbarPosition, imageToolbarPosition)
    /\ Bystander /\ UNCHANGED << now, insertVars, shotVars, showVars >>

\* placeElementAt(clientX, clientY, rect) with an insertion armed: the
\* element of the armed type is built at the point of the click, relative
\* to the origin of the slide, and appended to the active slide; an image
\* only gets its position fixed and the file picker opened
PlaceElementAt(x, y) ==
    /\ now' = now + 1
    /\ LET built == addElementNew(pendingInsert.type, pendingInsert.subtype, now + 1, activeDesign)
           newElement == [built EXCEPT !.x = x, !.y = y]
           updatedSlide ==
               IF currentSlideIndex < Len(slides)
               THEN [slides[currentSlideIndex + 1] EXCEPT
                        !.content = Append(@, newElement)]
               ELSE NoIdSlide(<< newElement >>)
       IN IF pendingInsert.type = "image"
          THEN /\ NoChange(Op("placeElementAt", x, y, TRUE))
               /\ pendingInsertPos' = now + 1
               /\ UNCHANGED uiVars
          ELSE /\ SlidesChange(Op("placeElementAt", x, y, TRUE),
                               updateSlide(slides, currentSlideIndex, updatedSlide),
                               TRUE, currentSlideIndex)
               /\ Ui([id |-> newElement.id, type |-> newElement.type],
                     IF newElement.type = "text" THEN newElement.id
                     ELSE editingTextId,
                     shapeToolbarPosition, chartToolbarPosition,
                     imageToolbarPosition)
               /\ pendingInsertPos' = NoId
    /\ pendingInsert' = IF keepInsertEnabled THEN pendingInsert ELSE NoInsert
    /\ UNCHANGED << keepInsertEnabled, randomState, imageRead >>

\* a click on the slide background: with an insertion armed the element is
\* placed at the point of the click, otherwise the selection is dropped
SlideClick ==
    /\ rnd = NoRnd
    /\ IF pendingInsert # NoInsert
       THEN \E x \in {40, 300}, y \in {40, 200} : PlaceElementAt(x, y)
       ELSE /\ NoChange(Op("slideClick", 0, 0, TRUE))
            /\ Ui(NoElement, editingTextId, shapeToolbarPosition,
                  chartToolbarPosition, NullPos)
            /\ UNCHANGED << now, insertVars >>
    /\ Bystander /\ UNCHANGED << shotVars, showVars >>

\* handleToggleKeepInsert(enabled)
ToggleKeepInsert(enabled) ==
    /\ rnd = NoRnd
    /\ keepInsertEnabled' = enabled
    /\ pendingInsert' = IF enabled THEN pendingInsert ELSE NoInsert
    /\ pendingInsertPos' = IF enabled THEN pendingInsertPos ELSE NoId
    /\ NoChange(Op("toggleKeepInsert", 0, 0, enabled # keepInsertEnabled))
    /\ Bystander
    /\ UNCHANGED << now, uiVars, randomState, imageRead, shotVars, showVars >>

\* the Escape key in the editor, leaving the selection as it is
HandleEscape_keepsSelection ==
    /\ ~isSlideshow
    /\ NoChange(Op("escape", 0, 0, TRUE))
    /\ Bystander
    /\ UNCHANGED << now, uiVars, insertVars, shotVars, showVars >>

\* the Escape key in the editor (handleKeyDown outside the slideshow; no
\* dropdown is open and no image is being edited, as nothing sets
\* activeDropdown or editingImage): an armed insertion is cancelled,
\* otherwise the selection is dropped
HandleEscape ==
    /\ ~isSlideshow
    /\ NoChange(Op("escape", 0, 0, TRUE))
    /\ IF pendingInsert # NoInsert
       THEN /\ pendingInsert' = NoInsert
            /\ pendingInsertPos' = NoId
            /\ UNCHANGED << uiVars, keepInsertEnabled, randomState, imageRead >>
       ELSE /\ Ui(NoElement, editingTextId, shapeToolbarPosition,
                  chartToolbarPosition, imageToolbarPosition)
            /\ UNCHANGED insertVars
    /\ Bystander
    /\ UNCHANGED << now, shotVars, showVars >>

\* handleThumbnailClick(index) of SlidePanel: setCurrentSlide(index)
SelectSlide(index) ==
    /\ rnd = NoRnd
    /\ Commit(Op("selectSlide", index, 0, index # currentSlideIndex), slides,
              FALSE, historyIndex, index, activeDesign, fileName,
              isUndoRedoAction)
    /\ IF index # currentSlideIndex THEN UiKeep ELSE UNCHANGED uiVars
    /\ Bystander /\ UNCHANGED << now, insertVars, shotVars, showVars >>

\* the state of the document and of its history, but for the active index
docVars == << slides, activeDesign, fileName, history, historyIndex,
              historyRef, historyIndexRef, slidesRef, isUndoRedoAction,
              lastSavedStateRef >>

\* Ctrl+S or Cmd+S: the keydown handler clears a pending save timer and calls
\* persistCurrentState(), then savePresentation() does both again and exports
SaveShortcut ==
    /\ LET r == savePresentation(persistenceTimeoutRef, slidesRef, activeDesign,
                                 fileName, historyRef, historyIndexRef)
       IN /\ storage' = r.storage
          /\ persistenceTimeoutRef' = r.persistenceTimeoutRef
          /\ persistenceTimeouts' =
                clearTimeout(persistenceTimeoutRef, persistenceTimeouts)
    /\ lastOp' = [Op("saveShortcut", 0, 0, persistenceTimeoutRef) EXCEPT !.writes = 2]
    /\ Bystander
    /\ UNCHANGED << docVars, currentSlideIndex, now, uiVars, insertVars, shotVars, showVars,
                    thumbTimers >>

\* the export action of the toolbar: savePresentation()
SavePresentation ==
    /\ rnd = NoRnd
    /\ LET r == savePresentation(persistenceTimeoutRef, slidesRef, activeDesign,
                                 fileName, historyRef, historyIndexRef)
       IN /\ storage' = r.storage
          /\ persistenceTimeoutRef' = r.persistenceTimeoutRef
          /\ persistenceTimeouts' =
                clearTimeout(persistenceTimeoutRef, persistenceTimeouts)
    /\ lastOp' = [Op("savePresentation", 0, 0, persistenceTimeoutRef) EXCEPT !.writes = 1]
    /\ Bystander
    /\ UNCHANGED << docVars, currentSlideIndex, now, uiVars, insertVars, shotVars, showVars,
                    thumbTimers >>

\* the component unmounts: the cleanups of its effects run.  The slideshow
\* interval, the thumbnail frame and the thumbnail debounce timer are
\* cancelled and a pending save is flushed; no cleanup touches the settle
\* timer of a drag or resize.  ok records whether a save was pending.
Unmount ==
    /\ mounted
    /\ mounted' = FALSE
    /\ slideshowIntervalRef' = FALSE
    /\ thumbnailCaptureFrame' = NoFrame
    /\ thumbnailDebounceTimeout' = FALSE
    /\ thumbnailTimeouts' = clearTimeout(thumbnailDebounceTimeout, thumbnailTimeouts)
    /\ LET r == persistenceCleanup(persistenceTimeoutRef, storage, slidesRef,
                                   activeDesign, fileName, historyRef,
                                   historyIndexRef)
       IN /\ storage' = r.storage
          /\ persistenceTimeoutRef' = r.persistenceTimeoutRef
          /\ persistenceTimeouts' =
                clearTimeout(persistenceTimeoutRef, persistenceTimeouts)
          /\ lastOp' = [Op("unmount", 0, 0, persistenceTimeoutRef)
                           EXCEPT !.writes = r.writes]
    /\ rnd' = NoRnd
    /\ gesture' = IF isMutatingRef /\ gesture.kind # "none"
                  THEN [gesture EXCEPT !.clean = FALSE] ELSE NoGesture
    /\ UNCHANGED << docVars, currentSlideIndex, isMutatingRef,
                    endMutatingTimeoutRef, endMutatingTimeouts, now,
                    uiVars, insertVars, shotVars, isSlideshow >>

\* the 200ms timer of a drag or resize fires after the component has
\* unmounted: the refs are written, setHistory and setHistoryIndex do nothing
SettleTimerUnmounted ==
    /\ ~mounted
    /\ endMutatingTimeoutRef
    /\ LET r == pushSnapshot(slidesRef, history, historyIndex, historyIndexRef,
                             isUndoRedoAction, lastSavedStateRef)
       IN /\ isUndoRedoAction' = r.isUndoRedoAction
          /\ lastSavedStateRef' = r.lastSavedStateRef
    /\ isMutatingRef' = FALSE
    /\ endMutatingTimeoutRef' = FALSE
    /\ endMutatingTimeouts' = endMutatingTimeouts - 1
    /\ lastOp' = Op("settleTimer", 0, 0, FALSE)
    /\ UNCHANGED << slides, currentSlideIndex, activeDesign, fileName, history,
                    historyIndex, historyRef, historyIndexRef, slidesRef,
                    persistenceTimeoutRef, persistenceTimeouts, storage, rnd,
                    now, gesture, uiVars, insertVars, shotVars, showVars,
                    thumbTimers >>

\* the 800ms timer set by scheduleThumbnailCapture fires: captureThumbnail()
\* of the render that set it, whose slides and currentSlideIndex are the
\* live ones since a change of either sets the timer again; a frame is
\* requested for the active slide unless there is none or a slideshow runs
ThumbnailDebounce ==
    /\ mounted
    /\ thumbnailDebounceTimeout
    /\ thumbnailDebounceTimeout' = FALSE
    /\ thumbnailTimeouts' = thumbnailTimeouts - 1
    /\ thumbnailCaptureFrame' =
          IF currentSlideIndex >= 0 /\ currentSlideIndex < Len(slides) /\ ~isSlideshow
          THEN [pending |-> TRUE, slide |-> slides[currentSlideIndex + 1]]
          ELSE thumbnailCaptureFrame
    /\ lastOp' = Op("thumbnailDebounce", 0, 0, TRUE)
    /\ UNCHANGED << docVars, currentSlideIndex, persistenceTimeoutRef,
                    persistenceTimeouts, storage,
                    gestureVars, gesture, now, uiVars, insertVars, shotVars,
                    showVars >>

\* the animation frame requested by captureThumbnail runs: toPng starts on
\* the slide node, which shows the slide the frame was requested for
ThumbnailFrame ==
    /\ thumbnailCaptureFrame # NoFrame
    /\ thumbnailCaptureFrame' = NoFrame
    /\ inFlight' = inFlight \cup { [id |-> thumbnailCaptureFrame.slide.id,
                                     shot |-> thumbnailCaptureFrame.slide] }
    /\ lastOp' = Op("thumbnailFrame", 0, 0, TRUE)
    /\ UNCHANGED << docVars, currentSlideIndex, persistenceTimeoutRef,
                    persistenceTimeouts, storage,
                    gestureVars, gesture, now, uiVars, insertVars, thumbnails,
                    showVars, thumbnailDebounceTimeout, thumbnailTimeouts >>

\* the thumbnails after the updater of setThumbnails in the then-callback of
\* toPng, for the capture c
storeThumbnail(prev, c) ==
    IF c.id \in DOMAIN prev /\ prev[c.id] = c.shot
    THEN prev
    ELSE [i \in DOMAIN prev \cup {c.id} |-> IF i = c.id THEN c.shot ELSE prev[i]]

\* the promise of the capture c resolves: its image is stored under the id
\* of its slide.  The render that follows changes persistCurrentState, which
\* depends on thumbnails: a pending save is flushed and a save scheduled.
\* After the unmount the update is dropped.  ok records whether the
\* thumbnails changed, a the id of the slide.
CaptureResolve(c) ==
    /\ c \in inFlight
    /\ inFlight' = inFlight \ {c}
    /\ LET next == IF mounted THEN storeThumbnail(thumbnails, c) ELSE thumbnails
           changed == next # thumbnails
           flush == changed /\ persistenceTimeoutRef
       IN /\ thumbnails' = next
          /\ storage' = IF flush
                        THEN persistCurrentState(slidesRef, activeDesign, fileName,
                                                 historyRef, historyIndexRef)
                        ELSE storage
          /\ persistenceTimeoutRef' = (changed \/ persistenceTimeoutRef)
          /\ persistenceTimeouts' =
                IF changed
                THEN clearThenSet(persistenceTimeoutRef, persistenceTimeouts)
                ELSE persistenceTimeouts
          /\ lastOp' = [Op("captureResolve", 0, 0, changed) EXCEPT
                           !.a = c.id, !.writes = IF flush THEN 1 ELSE 0]
    /\ UNCHANGED << docVars, currentSlideIndex, gestureVars, gesture, now,
                    uiVars, insertVars, showVars, thumbTimers >>

\* the commit after an event that changed isSlideshow or, to csi2, the
\* active index: persistCurrentState depends on currentSlideIndex, so a
\* pending save is flushed and a save scheduled when it changed;
\* captureThumbnail depends on both, so the thumbnail timers start again
ShowCommit(op, csi2) ==
    LET flush == csi2 # currentSlideIndex /\ persistenceTimeoutRef
    IN /\ currentSlideIndex' = csi2
       /\ storage' = IF flush
                     THEN persistCurrentState(slidesRef, activeDesign, fileName,
                                              historyRef, historyIndexRef)
                     ELSE storage
       /\ persistenceTimeoutRef' =
             (csi2 # currentSlideIndex \/ persistenceTimeoutRef)
       /\ persistenceTimeouts' =
             IF csi2 # currentSlideIndex
             THEN clearThenSet(persistenceTimeoutRef, persistenceTimeouts)
             ELSE persistenceTimeouts
       /\ thumbnailDebounceTimeout' = TRUE
       /\ thumbnailTimeouts' = clearThenSet(thumbnailDebounceTimeout, thumbnailTimeouts)
       /\ thumbnailCaptureFrame' = NoFrame
       /\ lastOp' = [op EXCEPT !.writes = IF flush THEN 1 ELSE 0]
       /\ UNCHANGED << docVars, gestureVars, gesture, now, insertVars,
                       shotVars, mounted >>
       /\ UiKeep

\* startSlideshow(): F5 or the toolbar; the slideshow effect starts the
\* interval
StartSlideshow ==
    /\ ~isSlideshow
    /\ rnd = NoRnd
    /\ isSlideshow' = TRUE
    /\ slideshowIntervalRef' = TRUE
    /\ ShowCommit(Op("startSlideshow", 0, 0, TRUE),
                  IF Len(slidesRef) > 0 THEN 0 ELSE currentSlideIndex)

\* the callback of the slideshow interval: the next index, or stopSlideshow()
\* on the last slide
slideshowTick(prevIndex, total) ==
    IF total <= 1 \/ prevIndex + 1 >= total
    THEN [currentSlideIndex |-> prevIndex, stop |-> TRUE]
    ELSE [currentSlideIndex |-> prevIndex + 1, stop |-> FALSE]

\* the slideshow interval fires
SlideshowTick ==
    /\ slideshowIntervalRef
    /\ LET r == slideshowTick(currentSlideIndex, Len(slidesRef))
       IN /\ isSlideshow' = (isSlideshow /\ ~r.stop)
          /\ slideshowIntervalRef' = ~r.stop
          /\ IF r.stop \/ r.currentSlideIndex # currentSlideIndex
             THEN ShowCommit(Op("slideshowTick", 0, 0, ~r.stop), r.currentSlideIndex)
             ELSE /\ lastOp' = Op("slideshowTick", 0, 0, FALSE)
                  /\ UNCHANGED << docVars, currentSlideIndex, storage,
                                  persistenceTimeoutRef, persistenceTimeouts,
                                  thumbTimers, uiVars,
                                  gestureVars, gesture, now, insertVars,
                                  shotVars, mounted >>

\* Escape during the slideshow, or its exit button: setIsSlideshow(false);
\* the slideshow effect clears the interval
ExitSlideshow ==
    /\ isSlideshow
    /\ isSlideshow' = FALSE
    /\ slideshowIntervalRef' = FALSE
    /\ ShowCommit(Op("exitSlideshow", 0, 0, TRUE), currentSlideIndex)

\* the load effect run with the stored document: the slides, design, file
\* name, history and cursor it installs.  A document holds its slides under
\* slides when they are an array (a value of another kind is held under
\* slidesValue), and its history under history when it has one.
loadEffect(stored, t) ==
    IF stored.present /\ "slides" \in DOMAIN stored
    THEN LET restoredSlides == deepCloneSlides(stored.slides)
         IN IF "history" \in DOMAIN stored /\ Len(stored.history) > 0
            THEN LET normalizedHistory ==
                         [i \in 1..Len(stored.history) |->
                             deepCloneSlides(stored.history[i])]
                     clampedIndex ==
                         Min(Max(stored.historyIndex, 0), Len(normalizedHistory) - 1)
                 IN [slides |-> normalizedHistory[clampedIndex + 1],
                     design |-> stored.design, fileName |-> stored.fileName,
                     history |-> normalizedHistory, historyIndex |-> clampedIndex]
            ELSE [slides |-> restoredSlides,
                  design |-> stored.design, fileName |-> stored.fileName,
                  history |-> << restoredSlides >>, historyIndex |-> 0]
    ELSE LET freshSlide ==
                 applyDesignToSlide(createSlide(0, "title", DEFAULT_DESIGN, t),
                                    DEFAULT_DESIGN)
         IN [slides |-> << freshSlide >>, design |-> DEFAULT_DESIGN,
             fileName |-> "untitled", history |-> << << freshSlide >> >>,
             historyIndex |-> 0]

\* the page is reloaded: the component mounts again on the stored document;
\* the commit after the load effect schedules a save
Reload ==
    /\ LET r == loadEffect(storage, now)
       IN /\ slides' = r.slides
          /\ slidesRef' = r.slides
          /\ activeDesign' = r.design
          /\ fileName' = r.fileName
          /\ history' = r.history
          /\ historyRef' = r.history
          /\ historyIndex' = r.historyIndex
          /\ historyIndexRef' = r.historyIndex
          /\ lastSavedStateRef' = computeSlidesHash(r.slides)
    /\ currentSlideIndex' = 0
    /\ isUndoRedoAction' = FALSE
    /\ isMutatingRef' = FALSE
    /\ endMutatingTimeoutRef' = FALSE
    /\ endMutatingTimeouts' = 0
    /\ persistenceTimeoutRef' = TRUE
    /\ persistenceTimeouts' = setTimeout(0)
    /\ rnd' = NoRnd
    /\ gesture' = NoGesture
    /\ selectedElement' = NoElement
    /\ editingTextId' = NoId
    /\ shapeToolbarPosition' = NullPos
    /\ chartToolbarPosition' = NullPos
    /\ imageToolbarPosition' = NullPos
    /\ pendingInsert' = NoInsert
    /\ pendingInsertPos' = NoId
    /\ thumbnails' = NoThumbnails
    /\ thumbnailDebounceTimeout' = TRUE
    /\ thumbnailTimeouts' = setTimeout(0)
    /\ thumbnailCaptureFrame' = NoFrame
    /\ inFlight' = {}
    /\ isSlideshow' = FALSE
    /\ slideshowIntervalRef' = FALSE
    /\ mounted' = TRUE
    /\ keepInsertEnabled' = FALSE
    /\ lastOp' = Op("load", 0, 0, TRUE)
    /\ imageRead' = NoRead
    /\ UNCHANGED << storage, now, randomState >>

-----------------------------------------------------------------------------
(* The editor specification: a fresh presentation after the load effect *)

\* input sets
XYUpdates == { [x |-> px, y |-> py] : px \in {120, 123}, py \in {120, 121} }
ChartUpdates(item) ==
    { [chartData |-> item.chartData],
      [chartData |-> EditedChartData(item.chartData)] }
PointerXs == {480, 481, 490}    \* 120, 120.25 and 122.5 canvas units
PointerYs == {480, 483}         \* 120 and 120.75 canvas units
Widths    == {320, 200}
FileNames == {"untitled", "deck"}
Designs   == {0, 1}

\* the state the load effect leaves for a presentation with nothing stored,
\* created at time t
FreshState(t) ==
    LET freshSlide == applyDesignToSlide(createSlide(0, "title", DEFAULT_DESIGN, t),
                                         DEFAULT_DESIGN)
    IN /\ slides = << freshSlide >>
       /\ slidesRef = << freshSlide >>
       /\ currentSlideIndex = 0
       /\ activeDesign = DEFAULT_DESIGN
       /\ fileName = "untitled"
       /\ history = << << freshSlide >> >>
       /\ historyRef = << << freshSlide >> >>
       /\ historyIndex = 0
       /\ historyIndexRef = 0
       /\ lastSavedStateRef = computeSlidesHash(<< freshSlide >>)
       /\ isUndoRedoAction = FALSE
       /\ isMutatingRef = FALSE
       /\ endMutatingTimeoutRef = FALSE
       /\ endMutatingTimeouts = 0
       /\ persistenceTimeoutRef = TRUE
       /\ persistenceTimeouts = setTimeout(0)
       /\ storage = NoDoc
       /\ rnd = NoRnd
       /\ now = t
       /\ gesture = NoGesture
       /\ selectedElement = NoElement
       /\ editingTextId = NoId
       /\ shapeToolbarPosition = NullPos
       /\ chartToolbarPosition = NullPos
       /\ imageToolbarPosition = NullPos
       /\ keepInsertEnabled = FALSE
       /\ pendingInsert = NoInsert
       /\ pendingInsertPos = NoId
       /\ randomState = 0
       /\ imageRead = NoRead
       /\ thumbnails = NoThumbnails
       /\ thumbnailDebounceTimeout = TRUE
       /\ thumbnailTimeouts = setTimeout(0)
       /\ thumbnailCaptureFrame = NoFrame
       /\ inFlight = {}
       /\ isSlideshow = FALSE
       /\ slideshowIntervalRef = FALSE
       /\ mounted = TRUE

Init ==
    /\ FreshState(1)
    /\ lastOp = Op("load", 0, 0, TRUE)
    /\ nEvents = 0

\* the events of the user on the elements of the active slide
ElementEvent ==
    \/ \E j \in 1..MaxElements : \E u \in XYUpdates :
          /\ j <= Len(CurrentContent)
          /\ UpdateElement(CurrentContent[j].id, u, TRUE)
    \/ \E j \in 1..MaxElements, sameObj \in BOOLEAN :
          /\ j <= Len(CurrentContent)
          /\ CurrentContent[j].type = "chart"
          /\ \E u \in ChartUpdates(CurrentContent[j]) :
                /\ sameObj => u.chartData = CurrentContent[j].chartData
                /\ UpdateElement(CurrentContent[j].id, u, sameObj)
    \/ \E kind \in {"drag", "resize"}, j \in 1..MaxElements : GestureStart(kind, j)
    \/ \E px \in PointerXs, py \in PointerYs : DragMove(px, py)
    \/ \E w \in Widths, px \in PointerXs : ResizeMove(w, rnd.height, px, rnd.y)
    \/ GestureStop
    \/ \E type \in {"shape", "chart"} :
          Len(CurrentContent) < MaxElements /\ AddElement(type, "bar", 1)

\* the events of the user on the deck
SlideEvent ==
    \/ \E i \in -1..MaxSlides, dt \in 0..1 :
          Len(slides) < MaxSlides /\ AddSlide(TRUE, i, dt)
    \/ \E dt \in 0..1 : Len(slides) < MaxSlides /\ AddSlide(FALSE, 0, dt)
    \/ \E i \in 0..MaxSlides : DeleteSlide(i)
    \/ \E from \in 0..MaxSlides, to \in -1..MaxSlides : MoveSlide(from, to)
    \/ \E src \in 0..(MaxSlides - 1), i \in 0..(MaxSlides - 1), after \in BOOLEAN :
          i < Len(slides) /\ HandleDrop(src, i, after)

Event(A) == nEvents < MaxEvents /\ nEvents' = nEvents + 1 /\ A

Next ==
    \/ Event(HandleUndo)
    \/ Event(HandleRedo)
    \/ Event(ElementEvent)
    \/ SettleTimer /\ UNCHANGED nEvents

Spec == Init /\ [][Next]_vars

-----------------------------------------------------------------------------
(* The deck specification: slides added, deleted, reordered and selected *)

DeckEvent(A) == nEvents < MaxDeckEvents /\ nEvents' = nEvents + 1 /\ A

NextDeck ==
    \/ DeckEvent(HandleUndo)
    \/ DeckEvent(HandleRedo)
    \/ DeckEvent(SlideEvent)
    \/ DeckEvent(\E i \in 0..(MaxSlides - 1) : i < Len(slides) /\ SelectSlide(i))

SpecDeck == Init /\ [][NextDeck]_vars

-----------------------------------------------------------------------------
(* The titles specification: the deck operations on a fresh presentation   *)
(* and on stored documents some of whose slides carry titles of their own  *)

\* slide i (1-based) of a stored document, saved with the title of its
\* position or with a title of its own, which its id tells
StoredSlide(i, custom) ==
    [id |-> IF custom THEN CustomIdBase + i ELSE StoredIdBase + i,
     title |-> IF custom THEN 0 - (CustomIdBase + i) ELSE AutoTitle(i),
     content |-> createSlideFromLayout("title").content,
     background |-> DesignBackground(DEFAULT_DESIGN)]

\* the stored documents: decks of one or two slides
StoredDocs ==
    { LET ss == [i \in 1..Len(c) |-> StoredSlide(i, c[i])]
      IN [present |-> TRUE, slides |-> ss, design |-> DEFAULT_DESIGN,
          fileName |-> "deck", history |-> << ss >>, historyIndex |-> 0] :
        c \in UNION { [1..n -> BOOLEAN] : n \in 1..2 } }

\* the state after the mount on the stored document, at time t
LoadedState(stored, t) ==
    LET r == loadEffect(stored, t)
    IN /\ slides = r.slides
       /\ slidesRef = r.slides
       /\ currentSlideIndex = 0
       /\ activeDesign = r.design
       /\ fileName = r.fileName
       /\ history = r.history
       /\ historyRef = r.history
       /\ historyIndex = r.historyIndex
       /\ historyIndexRef = r.historyIndex
       /\ lastSavedStateRef = computeSlidesHash(r.slides)
       /\ isUndoRedoAction = FALSE
       /\ isMutatingRef = FALSE
       /\ endMutatingTimeoutRef = FALSE
       /\ endMutatingTimeouts = 0
       /\ persistenceTimeoutRef = TRUE
       /\ persistenceTimeouts = setTimeout(0)
       /\ storage = stored
       /\ rnd = NoRnd
       /\ now = t
       /\ gesture = NoGesture
       /\ selectedElement = NoElement
       /\ editingTextId = NoId
       /\ shapeToolbarPosition = NullPos
       /\ chartToolbarPosition = NullPos
       /\ imageToolbarPosition = NullPos
       /\ keepInsertEnabled = FALSE
       /\ pendingInsert = NoInsert
       /\ pendingInsertPos = NoId
       /\ randomState = 0
       /\ imageRead = NoRead
       /\ thumbnails = NoThumbnails
       /\ thumbnailDebounceTimeout = TRUE
       /\ thumbnailTimeouts = setTimeout(0)
       /\ thumbnailCaptureFrame = NoFrame
       /\ inFlight = {}
       /\ isSlideshow = FALSE
       /\ slideshowIntervalRef = FALSE
       /\ mounted = TRUE

InitTitles ==
    /\ \E stored \in StoredDocs \cup {NoDoc} : LoadedState(stored, 1)
    /\ lastOp = Op("load", 0, 0, TRUE)
    /\ nEvents = 0

TitleEvent(A) == nEvents < MaxTitleEvents /\ nEvents' = nEvents + 1 /\ A

NextTitles ==
    \/ TitleEvent(\E i \in 0..MaxTitleSlides :
                     Len(slides) < MaxTitleSlides /\ AddSlide(TRUE, i, 1))
    \/ TitleEvent(\E i \in 0..(MaxTitleSlides - 1) :
                     i < Len(slides) /\ DeleteSlide(i))
    \/ TitleEvent(\E from, to \in 0..(MaxTitleSlides - 1) :
                     from < Len(slides) /\ to < Len(slides) /\ MoveSlide(from, to))

SpecTitles == InitTitles /\ [][NextTitles]_vars

-----------------------------------------------------------------------------
(* The elements specification: insertions, duplicates and deletions on the *)
(* active slide, with undo and redo and a second slide                      *)

\* an element id that no item carries
AbsentId == 999

\* the ids a toolbar can pass: those of the items of the active slide
ContentIds == { CurrentContent[j].id : j \in 1..Len(CurrentContent) }

ElementsEvent(A) == nEvents < MaxElementEvents /\ nEvents' = nEvents + 1 /\ A

NextElements ==
    \/ ElementsEvent(\E type \in {"shape", "chart"}, dt \in 0..1 :
                        Len(CurrentContent) < MaxContent /\ AddElement(type, "bar", dt))
    \/ ElementsEvent(\E dt \in 0..1 : AddImage(dt))
    \/ ElementsEvent(Len(CurrentContent) < MaxContent /\ HandleImageFileChange)
    \/ ElementsEvent(\E id \in ContentIds \cup {AbsentId}, dt \in 0..1 :
                        Len(CurrentContent) < MaxContent /\ DuplicateElement(id, dt))
    \/ ElementsEvent(\E id \in ContentIds \cup {AbsentId} : DeleteElement(id))
    \/ ElementsEvent(\E id \in ContentIds : UpdateElement(id, [x |-> 123], TRUE))
    \/ ElementsEvent(HandleUndo)
    \/ ElementsEvent(HandleRedo)
    \/ ElementsEvent(Len(slides) < 2 /\ AddSlide(FALSE, 0, 1))

SpecElements == Init /\ [][NextElements]_vars

-----------------------------------------------------------------------------
(* The selection specification: clicks that select, insertions, changes    *)
(* and deletions of elements, with undo and redo                            *)

SelectionEvent(A) == nEvents < MaxSelectionEvents /\ nEvents' = nEvents + 1 /\ A

NextSelection ==
    \/ SelectionEvent(\E j \in 1..MaxContent : ElementClick(j))
    \/ SelectionEvent(\E j \in 1..MaxContent : TextFocus(j))
    \/ SelectionEvent(SlideClick)
    \/ SelectionEvent(\E type \in {"shape", "chart"} :
                         Len(CurrentContent) < MaxContent /\ AddElement(type, "bar", 1))
    \/ SelectionEvent(AddImage(1))
    \/ SelectionEvent(Len(CurrentContent) < MaxContent /\ HandleImageFileChange)
    \/ SelectionEvent(\E id \in ContentIds : UpdateElement(id, [x |-> 123], TRUE))
    \/ SelectionEvent(\E id \in ContentIds : DeleteElement(id))
    \/ SelectionEvent(HandleUndo)
    \/ SelectionEvent(HandleRedo)

SpecSelection == Init /\ [][NextSelection]_vars

-----------------------------------------------------------------------------
(* The capacity specification: one element nudged again and again, with    *)
(* undo, redo, the save timer and reloads of the page                       *)

\* the x after x in the cycle of NudgeRange positions that starts at 120
NextNudge(x) == 120 + ((x - 120 + 1) % NudgeRange)

\* the first element of the active slide is nudged to the next position
Nudge ==
    /\ Len(CurrentContent) > 0
    /\ UpdateElement(CurrentContent[1].id,
                     [x |-> NextNudge(CurrentContent[1].x)], TRUE)

NextCap ==
    \/ Nudge /\ UNCHANGED nEvents
    \/ HandleUndo /\ UNCHANGED nEvents
    \/ HandleRedo /\ UNCHANGED nEvents
    \/ PersistTimer /\ UNCHANGED nEvents
    \/ Reload /\ UNCHANGED nEvents

SpecCap == Init /\ [][NextCap]_vars

-----------------------------------------------------------------------------
(* The persistence specification: model changes and the save timer *)

NextPersist ==
    \/ Event(\E u \in XYUpdates :
                /\ Len(CurrentContent) > 0
                /\ UpdateElement(CurrentContent[1].id, u, TRUE))
    \/ Event(\E d \in Designs : ApplyDesignPreset(d))
    \/ Event(\E name \in FileNames : SetFileName(name))
    \/ Event(HandleUndo)
    \/ PersistTimer /\ UNCHANGED nEvents

SpecPersist == Init /\ [][NextPersist]_vars

-----------------------------------------------------------------------------
(* Claims about the history engine, checked under Spec *)

\* two slide arrays are content-identical when they serialize identically
ContentIdentical(a, b) == computeSlidesHash(a) = computeSlidesHash(b)

\* C1: from a state whose live slides are content-identical to
\* history[historyIndex] with historyIndex > 0, handleUndo leaves the history
\* alone and moves the cursor back by one, and a handleRedo that follows it
\* immediately restores slides content-identical to those before the undo,
\* leaves the history alone and puts the cursor back.
C1_UndoRedoRoundTrip ==
    [][ /\ ( /\ lastOp'.op = "undo"
             /\ historyIndex > 0
             /\ ContentIdentical(slides, history[historyIndex + 1])
             /\ HandleUndo )
           => /\ lastOp'.ok
              /\ history' = history
              /\ historyIndex' = historyIndex - 1
        /\ ( /\ lastOp'.op = "redo"
             /\ lastOp.op = "undo" /\ lastOp.ok
             /\ ContentIdentical(lastOp.pre, history[historyIndex + 2])
             /\ HandleRedo )
           => /\ lastOp'.ok
              /\ ContentIdentical(slides', lastOp.pre)
              /\ history' = history
              /\ historyIndex' = historyIndex + 1 ]_vars

\* a redo right after an undo of a committed mutation gave the slides back
C1_Witness ==
    /\ lastOp.op = "redo" /\ lastOp.ok /\ lastOp.after = "undo"
    /\ lastOp.pre # << >>
    /\ ContentIdentical(slides, lastOp.pre)
    /\ ContentIdentical(slides, history[historyIndex + 1])
    /\ historyIndex > 0

\* the gesture of the ghost record started with no earlier gesture still
\* settling, and no event other than its own has come since
IsolatedGesture == gesture.kind # "none" /\ gesture.fresh /\ gesture.clean

\* the history after exactly one commit of snapshot on top of the window
\* hist with cursor idx: entries after the cursor dropped, the oldest entry
\* evicted when the window is full
OneEntryAdded(hist, idx, snapshot) ==
    LET kept == SubSeq(hist, 1, idx + 1)
    IN Append(IF Len(kept) = HISTORY_PERSIST_LIMIT THEN Tail(kept) ELSE kept,
              snapshot)

\* the element id of the active slide of deck ss has the geometry of updates
HasGeometry(ss, csi, id, updates) ==
    \E e \in RangeOf(ss[csi + 1].content) :
        e.id = id /\ \A k \in DOMAIN updates : e[k] = updates[k]

C6_RestoreNotRecaptured ==
    [][ /\ (lastOp'.op = "undo" /\ lastOp'.ok /\ HandleUndo)
            => /\ history' = history
               /\ historyIndex' = historyIndex - 1
               /\ ContentIdentical(slides', history[historyIndex])
        /\ (lastOp'.op = "redo" /\ lastOp'.ok /\ HandleRedo)
            => /\ history' = history
               /\ historyIndex' = historyIndex + 1
               /\ ContentIdentical(slides', history[historyIndex + 2]) ]_vars

\* an undo whose slides effect ran (no gesture was settling) changed the
\* live slides
C6_Witness ==
    /\ lastOp.op = "undo" /\ lastOp.ok /\ ~lastOp.same
    /\ ~isMutatingRef
    /\ ~isUndoRedoAction
    /\ Len(history) >= 2

\* every field of updates is value-identical to the field of the items
\* named id on the active slide
PatchIdentical(id, updates) ==
    \A e \in RangeOf(CurrentContent) :
        e.id = id => \A k \in DOMAIN updates : e[k] = updates[k]

\* C8: an updateElement whose updates are all value-identical to the current
\* fields leaves the slides content-identical and adds no history entry.
C8_IdenticalUpdateIsNoOp ==
    [][ \A j \in 1..MaxElements : j <= Len(CurrentContent) =>
          LET e == CurrentContent[j]
          IN /\ \A u \in XYUpdates :
                  ( /\ lastOp'.op = "updateElement"
                    /\ PatchIdentical(e.id, u)
                    /\ UpdateElement(e.id, u, TRUE) )
                    => /\ ContentIdentical(slides', slides)
                       /\ history' = history /\ historyIndex' = historyIndex
             /\ \A u \in IF e.type = "chart" THEN ChartUpdates(e) ELSE {},
                   sameObj \in BOOLEAN :
                  ( /\ lastOp'.op = "updateElement"
                    /\ PatchIdentical(e.id, u)
                    /\ UpdateElement(e.id, u, sameObj) )
                    => /\ ContentIdentical(slides', slides)
                       /\ history' = history /\ historyIndex' = historyIndex
      ]_vars

\* an updateElement with a new chartData object of identical content went
\* through setSlides and left the content as it was
C8_Witness ==
    /\ lastOp.op = "updateElement" /\ lastOp.ok /\ lastOp.same
    /\ ~isMutatingRef

-----------------------------------------------------------------------------
(* Claims about the history window, checked under SpecCap *)

\* the x of the first element of the first slide of a snapshot
FirstX(snapshot) == snapshot[1].content[1].x

\* C2: in every state reached from a fresh presentation, or from a document
\* the program persisted and loaded again, by mutations, history commits,
\* undo and redo, the history holds at least 1 and at most
\* HISTORY_PERSIST_LIMIT = 20 snapshots.
C2_HistoryLengthBounded ==
    /\ Len(history) >= 1
    /\ Len(history) <= HISTORY_PERSIST_LIMIT

\* a document with a full window that has slid was persisted and loaded
C2_Witness ==
    /\ lastOp.op = "load"
    /\ Len(history) = HISTORY_PERSIST_LIMIT
    /\ FirstX(history[1]) # 120

\* C3: when the history holds 20 snapshots and the cursor is on the newest,
\* a commit removes exactly the oldest snapshot, keeps the other 19 in
\* their order, appends the new snapshot last and leaves the cursor at 19,
\* on the new snapshot.
C3_EvictsOldest ==
    [][ ( /\ Len(history) = HISTORY_PERSIST_LIMIT
          /\ historyIndex = HISTORY_PERSIST_LIMIT - 1
          /\ lastOp'.ok
          /\ Nudge )
        => /\ Len(history') = HISTORY_PERSIST_LIMIT
           /\ \A i \in 1..(HISTORY_PERSIST_LIMIT - 1) : history'[i] = history[i + 1]
           /\ \A i \in 1..(HISTORY_PERSIST_LIMIT - 1) : history'[i] # history[1]
           /\ ContentIdentical(history'[HISTORY_PERSIST_LIMIT], slides')
           /\ ~ContentIdentical(history'[HISTORY_PERSIST_LIMIT], slides)
           /\ historyIndex' = HISTORY_PERSIST_LIMIT - 1 ]_vars

\* a commit at capacity: the window is full, the cursor is at 19 on the
\* snapshot of the live slides and the first snapshot kept is not the
\* initial one
C3_Witness ==
    /\ lastOp.op = "updateElement" /\ lastOp.ok
    /\ Len(history) = HISTORY_PERSIST_LIMIT
    /\ historyIndex = HISTORY_PERSIST_LIMIT - 1
    /\ FirstX(history[1]) # 120
    /\ ContentIdentical(history[HISTORY_PERSIST_LIMIT], slides)

\* C20: every document written to storage holds the last
\* HISTORY_PERSIST_LIMIT = 20 entries, at most, of the live history window,
\* and a historyIndex inside that history which is the live cursor shifted
\* by the number of entries trimmed, so that it designates the snapshot the
\* live cursor designated.
C20_PersistedHistoryWindow ==
    [][ lastOp'.writes = 1
        => LET doc == storage'
               trimmed == Len(history) - Len(doc.history)
           IN /\ doc.present
              /\ Len(doc.history) <= HISTORY_PERSIST_LIMIT
              /\ trimmed = Max(Len(history) - HISTORY_PERSIST_LIMIT, 0)
              /\ doc.history = SubSeq(history, trimmed + 1, Len(history))
              /\ doc.historyIndex \in 0..(Len(doc.history) - 1)
              /\ doc.historyIndex = historyIndex - trimmed
              /\ doc.history[doc.historyIndex + 1] = history[historyIndex + 1]
      ]_vars

\* the save timer wrote a document with a full window that has slid and a
\* cursor that is neither on its first nor on its newest entry
C20_Witness ==
    /\ lastOp.op = "persistTimer" /\ lastOp.writes = 1
    /\ storage.present
    /\ Len(storage.history) = HISTORY_PERSIST_LIMIT
    /\ FirstX(storage.history[1]) # 120
    /\ storage.historyIndex > 0
    /\ storage.historyIndex < HISTORY_PERSIST_LIMIT - 1
    /\ storage.historyIndex = historyIndex

-----------------------------------------------------------------------------
(* Claims about the deck, checked under SpecDeck *)

\* C4: the slide count never drops below 1: deleteSlide on a deck of one
\* slide changes neither the slides nor the active index, and no sequence
\* of addSlide, deleteSlide, moveSlide, undo and redo reaches an empty deck.
C4_AtLeastOneSlide ==
    /\ Len(slides) >= 1
    /\ (lastOp.op = "deleteSlide" /\ Len(lastOp.pre) = 1)
         => /\ ~lastOp.ok
            /\ slides = lastOp.pre
            /\ currentSlideIndex = lastOp.csi

\* deleteSlide was refused on a deck of one slide that had held two before
C4_Witness ==
    /\ lastOp.op = "deleteSlide" /\ ~lastOp.ok
    /\ Len(slides) = 1
    /\ \E i \in 1..Len(history) : Len(history[i]) = 2

\* the slides of a deck without their titles, which moves renumber
Untitled(ss) == [i \in 1..Len(ss) |-> [ss[i] EXCEPT !.title = 0]]

\* the number of slides of ss with the id
CountId(ss, id) == Cardinality({ i \in 1..Len(ss) : ss[i].id = id })

\* the last event called moveSlide
MoveCalled == lastOp.op \in {"moveSlide", "dropMove"}

\* after is before with the slide at from moved to index to, clamped
MovedTo(before, after, from, to) ==
    LET n  == Len(before)
        at == Max(0, Min(to, n - 1))
    IN /\ Len(after) = n
       /\ \A i \in 1..n : CountId(after, before[i].id) = CountId(before, before[i].id)
       /\ Untitled(RemoveAt(after, at)) = Untitled(RemoveAt(before, from))
       /\ Untitled(after)[at + 1] = Untitled(before)[from + 1]

\* C9: on a deck of n slides, moveSlide(from, to) with from in 0..n-1 and
\* to # from keeps the multiset of slide ids and the relative order of the
\* slides other than the moved one, and puts the moved slide at index to
\* clamped into 0..n-1; so does the move a thumbnail drop makes.
C9_MoveSlidePermutes ==
    (MoveCalled /\ lastOp.a < Len(lastOp.pre) /\ lastOp.b # lastOp.a)
        => /\ lastOp.ok
           /\ MovedTo(lastOp.pre, slides, lastOp.a, lastOp.b)

\* a slide of a deck of three distinct slides was moved
C9_Witness ==
    /\ MoveCalled /\ lastOp.ok
    /\ Len(slides) = 3
    /\ \A i, j \in 1..3 : i # j => slides[i].id # slides[j].id
    /\ Untitled(slides) # Untitled(lastOp.pre)
    /\ \A i \in 1..3 : CountId(lastOp.pre, slides[i].id) = 1

\* C10: after moveSlide(from, to) the active index points at the slide it
\* pointed at before the move, for every from, to and active index.
C10_ActiveSlideTracked ==
    MoveCalled
        => IF lastOp.csi < Len(lastOp.pre)
           THEN /\ currentSlideIndex \in 0..(Len(slides) - 1)
                /\ Untitled(slides)[currentSlideIndex + 1]
                     = Untitled(lastOp.pre)[lastOp.csi + 1]
           ELSE currentSlideIndex = lastOp.csi

\* a slide moved across the active slide: the active index followed it
C10_Witness ==
    /\ lastOp.op = "moveSlide" /\ lastOp.ok
    /\ Len(slides) = 3
    /\ \A i, j \in 1..3 : i # j => slides[i].id # slides[j].id
    /\ currentSlideIndex # lastOp.csi
    /\ lastOp.csi < Len(lastOp.pre)
    /\ lastOp.a # lastOp.csi
    /\ slides[currentSlideIndex + 1].id = lastOp.pre[lastOp.csi + 1].id

\* C11: on a deck of more than one slide, deleteSlide(i) with i a valid
\* index removes exactly slide i and leaves the active index inside the new
\* deck; an active index that designated a slide is decreased by one when i
\* precedes it (and still designates the same slide), is clamped to the new
\* last index when it was on the last slide, and is unchanged otherwise.
C11_DeleteSlideRelocates ==
    (lastOp.op = "deleteSlide" /\ Len(lastOp.pre) > 1 /\ lastOp.a < Len(lastOp.pre))
        => LET n == Len(lastOp.pre)
               i == lastOp.a
               active == lastOp.csi
           IN /\ lastOp.ok
              /\ Len(slides) = n - 1
              /\ Untitled(slides) = Untitled(RemoveAt(lastOp.pre, i))
              /\ currentSlideIndex \in 0..(Len(slides) - 1)
              /\ active < n =>
                    /\ currentSlideIndex =
                          IF i < active THEN active - 1
                          ELSE IF active = n - 1 THEN n - 2
                          ELSE active
                    /\ i < active =>
                          Untitled(slides)[currentSlideIndex + 1]
                            = Untitled(lastOp.pre)[active + 1]

\* slide 1 of three distinct slides was deleted while slide 2 was active:
\* two slides are left and the active index is 1, on the same slide
C11_Witness ==
    /\ lastOp.op = "deleteSlide" /\ lastOp.ok
    /\ Len(lastOp.pre) = 3 /\ lastOp.a = 1 /\ lastOp.csi = 2
    /\ \A i, j \in 1..3 : i # j => lastOp.pre[i].id # lastOp.pre[j].id
    /\ Len(slides) = 2 /\ currentSlideIndex = 1
    /\ slides[2].id = lastOp.pre[3].id

\* the position addSlide(layoutId, index) inserts at in a deck of n slides:
\* index clamped into 0..n, n when index is not a finite number
InsertPosition(n, finite, index) ==
    IF ~finite THEN n
    ELSE IF index < 0 THEN 0
    ELSE IF index > n THEN n
    ELSE index

\* C12: addSlide(layoutId, index) on a deck of n slides inserts exactly one
\* new slide, at position clamp(index, 0, n) (n when index is not a finite
\* number), keeps the existing slides in their order and makes the new
\* slide the active one.
C12_AddSlideInserts ==
    lastOp.op = "addSlide"
        => LET n  == Len(lastOp.pre)
               at == InsertPosition(n, lastOp.b = 1, lastOp.a)
           IN /\ Len(slides) = n + 1
              /\ Untitled(RemoveAt(slides, at)) = Untitled(lastOp.pre)
              /\ slides[at + 1].title = AutoTitle(at + 1)
              /\ currentSlideIndex = at

\* a slide was inserted in the middle of a deck of two distinct slides
\* while the last slide was active
C12_Witness ==
    /\ lastOp.op = "addSlide" /\ lastOp.b = 1 /\ lastOp.a = 1
    /\ Len(lastOp.pre) = 2 /\ lastOp.csi = 1
    /\ lastOp.pre[1].id # lastOp.pre[2].id
    /\ Len(slides) = 3 /\ currentSlideIndex = 1
    /\ slides[1].id = lastOp.pre[1].id /\ slides[3].id = lastOp.pre[2].id

-----------------------------------------------------------------------------
(* Claims about slide titles, checked under SpecTitles *)

\* C13: after any sequence of addSlide, deleteSlide and moveSlide the slide
\* at position p carries the generated title of p, "Slide p+1" counting
\* positions from 0, unless it was stored with a title of its own, which it
\* keeps; from the default one-slide deck every slide carries the generated
\* title of its position.
C13_TitlesFollowPositions ==
    \A p \in 1..Len(slides) :
        IF slides[p].id > CustomIdBase
        THEN slides[p].title = 0 - slides[p].id
        ELSE slides[p].title = AutoTitle(p)

\* a slide stored at position 1 with a title of its own is now at position
\* 2 after an insertion in front of it, between two renumbered slides
C13_Witness ==
    /\ lastOp.op = "addSlide" /\ lastOp.a = 0
    /\ Len(slides) = 3
    /\ slides[2].id = CustomIdBase + 1 /\ slides[2].title = 0 - (CustomIdBase + 1)
    /\ slides[3].id = StoredIdBase + 2 /\ slides[3].title = AutoTitle(3)
    /\ slides[1].title = AutoTitle(1)

\* C15 as stated: after any sequence of addSlide, deleteSlide and moveSlide
\* the slides of the deck have pairwise distinct ids.
C15_Original ==
    \A p, q \in 1..Len(slides) : p # q => slides[p].id # slides[q].id

-----------------------------------------------------------------------------
(* Claims about the elements of a slide, checked under SpecElements *)

\* C14 as stated: after any sequence of insertions, duplicateElement,
\* deleteElement, undo and redo, no two elements of a slide have the same id.
C14_Original ==
    \A i \in 1..Len(slides) :
        \A j, k \in 1..Len(slides[i].content) :
            j # k => slides[i].content[j].id # slides[i].content[k].id

\* the first item of content with the id
FirstWithId(content, id) ==
    content[CHOOSE j \in 1..Len(content) :
               /\ content[j].id = id
               /\ \A k \in 1..(j - 1) : content[k].id # id]

\* C16: duplicateElement(id) appends to the active slide exactly one
\* element, a copy of the source but for its id, which no element already
\* on the slide has, and its position, the source's plus (20, 20); it
\* leaves the source, the other elements and the other slides as they
\* were; with an id that is not on the active slide the slides are unchanged.
C16_DuplicateAppendsCopy ==
    [][ lastOp'.op = "duplicateElement"
        => IF \E e \in RangeOf(CurrentContent) : e.id = lastOp'.a
           THEN LET source == FirstWithId(CurrentContent, lastOp'.a)
                    n == Len(CurrentContent)
                    content == slides'[currentSlideIndex + 1].content
                    copy == content[n + 1]
                IN /\ Len(slides') = Len(slides)
                   /\ \A i \in 1..Len(slides) :
                         i # currentSlideIndex + 1 => slides'[i] = slides[i]
                   /\ slides'[currentSlideIndex + 1] =
                         [slides[currentSlideIndex + 1] EXCEPT !.content = content]
                   /\ Len(content) = n + 1
                   /\ SubSeq(content, 1, n) = CurrentContent
                   /\ copy = [source EXCEPT !.id = copy.id,
                                            !.x = source.x + 20,
                                            !.y = source.y + 20]
                   /\ \A e \in RangeOf(CurrentContent) : e.id # copy.id
           ELSE slides' = slides ]_vars

\* an element was duplicated twice within one millisecond: the slide holds
\* the source and two copies of it with ids of their own
C16_Witness ==
    /\ lastOp.op = "duplicateElement" /\ lastOp.ok
    /\ Len(CurrentContent) = 3
    /\ CurrentContent[1].id = lastOp.a
    /\ CurrentContent[3].id = CurrentContent[2].id + 1
    /\ CurrentContent[3].id # lastOp.a
    /\ CurrentContent[2].x = CurrentContent[1].x + 20
    /\ CurrentContent[3].x = CurrentContent[1].x + 20
    /\ CurrentContent[3].y = CurrentContent[1].y + 20

\* the events that call addElement (the image insertion included),
\* updateElement, deleteElement or duplicateElement
ElementOps == {"addElement", "updateElement", "deleteElement", "duplicateElement"}

\* C17 as stated: addElement, updateElement, deleteElement and
\* duplicateElement change only the content of the active slide: the other
\* slides, the order, ids, titles and backgrounds of all slides and the
\* active index are unchanged.
C17_Original ==
    [][ lastOp'.op \in ElementOps
        => /\ Len(slides') = Len(slides)
           /\ \A i \in 1..Len(slides) :
                 /\ i # currentSlideIndex + 1 => slides'[i] = slides[i]
                 /\ slides'[i].id = slides[i].id
                 /\ slides'[i].title = slides[i].title
                 /\ slides'[i].background = slides[i].background
           /\ currentSlideIndex' = currentSlideIndex ]_vars

-----------------------------------------------------------------------------
(* Claims about undo, redo and the selection, checked under SpecSelection *)

\* C18: handleUndo with the cursor at index 0, and handleRedo with the
\* cursor on the newest entry, change nothing: the live slides, the
\* history, the cursor, the selection, the text being edited and the
\* toolbar anchors are as they were.
C18_BoundaryUndoRedoNoOp ==
    [][ ( \/ lastOp'.op = "undo" /\ historyIndex = 0
          \/ lastOp'.op = "redo" /\ historyIndex = Len(history) - 1 )
        => /\ ~lastOp'.ok
           /\ UNCHANGED << slides, history, historyIndex, uiVars >> ]_vars

\* an undo at index 0, after an earlier undo brought the cursor there and a
\* click selected an element: refused, the selection is still there
C18_Witness ==
    /\ lastOp.op = "undo" /\ ~lastOp.ok /\ lastOp.after = "elementClick"
    /\ historyIndex = 0 /\ Len(history) > 1
    /\ selectedElement # NoElement

\* C19: after a successful undo or redo selectedElement and editingTextId
\* are null and the shape, chart and image toolbar anchors are null.
C19_RestoreClearsSelection ==
    (lastOp.op \in {"undo", "redo"} /\ lastOp.ok)
        => /\ selectedElement = NoElement
           /\ editingTextId = NoId
           /\ shapeToolbarPosition = NullPos
           /\ chartToolbarPosition = NullPos
           /\ imageToolbarPosition = NullPos

\* a successful undo right after a click that selected an element and
\* anchored its toolbar
C19_Witness ==
    /\ lastOp.op = "undo" /\ lastOp.ok /\ lastOp.after = "elementClick"
    /\ ~lastOp.same
    /\ selectedElement = NoElement
    /\ chartToolbarPosition = NullPos

-----------------------------------------------------------------------------
(* Claims about persistence, checked under SpecPersist *)

\* the events that change the slides, the design or the file name
ModelChanges == {"updateElement", "applyDesignPreset", "setFileName"}

\* C7 as stated: a model change that comes while the save scheduled by the
\* model change before it is pending cancels that save without a write to
\* storage and leaves a save pending.
C7_Original ==
    [][ ( /\ lastOp.op \in ModelChanges /\ lastOp.ok
          /\ persistenceTimeoutRef
          /\ lastOp'.op \in ModelChanges /\ lastOp'.ok )
        => /\ lastOp'.writes = 0
           /\ storage' = storage
           /\ persistenceTimeoutRef' ]_vars

-----------------------------------------------------------------------------
(* The save specification: model changes, drags, the timers, the explicit  *)
(* saves and the unmounting of the component                                *)

SaveEvent(A) == nEvents < MaxSaveEvents /\ nEvents' = nEvents + 1 /\ A

NextSave ==
    \/ mounted /\ SaveEvent(\E u \in XYUpdates :
                                /\ Len(CurrentContent) > 0
                                /\ UpdateElement(CurrentContent[1].id, u, TRUE))
    \/ mounted /\ SaveEvent(\E name \in FileNames : SetFileName(name))
    \/ mounted /\ SaveEvent(HandleUndo)
    \/ mounted /\ SaveEvent(GestureStart("drag", 1))
    \/ mounted /\ SaveEvent(\E px \in PointerXs : DragMove(px, rnd.y))
    \/ mounted /\ SaveEvent(GestureStop)
    \/ mounted /\ SaveEvent(SaveShortcut)
    \/ mounted /\ SaveEvent(SavePresentation)
    \/ SaveEvent(Unmount)
    \/ mounted /\ SettleTimer /\ UNCHANGED nEvents
    \/ mounted /\ PersistTimer /\ UNCHANGED nEvents
    \/ SettleTimerUnmounted /\ UNCHANGED nEvents

SpecSave == Init /\ [][NextSave]_vars

\* the document persistCurrentState would write from the live state
LiveDocument ==
    persistCurrentState(slides, activeDesign, fileName, history, historyIndex)

\* C21: right after an explicit save (the save shortcut or the export
\* action) the storage holds the document of the live state and no save
\* timer is pending, so no timer-driven write follows from the save that was
\* pending; right after the component unmounts no save timer is pending
\* either, and when one was pending at that moment the storage holds the
\* document of the live state, written by the unmount itself.
C21_ImmediateSaves ==
    /\ lastOp.op \in {"saveShortcut", "savePresentation"}
          => /\ storage = LiveDocument
             /\ lastOp.writes >= 1
             /\ ~persistenceTimeoutRef
    /\ lastOp.op = "unmount"
          => /\ ~persistenceTimeoutRef
             /\ lastOp.ok => (storage = LiveDocument /\ lastOp.writes = 1)

\* an explicit save made while a save was pending and while the last drag
\* is not yet in the history
C21_Witness ==
    /\ lastOp.op \in {"saveShortcut", "savePresentation"}
    /\ lastOp.ok
    /\ endMutatingTimeoutRef
    /\ storage = LiveDocument

-----------------------------------------------------------------------------
(* The load specification: the component mounted on a stored document that *)
(* is absent, malformed or well formed, then edited, saved and reloaded     *)

\* the documents with no usable slides: slides missing, slides that are no
\* array, slides an empty array with and without a history
MalformedDocs ==
    { [present |-> TRUE, design |-> DEFAULT_DESIGN, fileName |-> "deck"],
      [present |-> TRUE, slidesValue |-> "object", design |-> DEFAULT_DESIGN,
       fileName |-> "deck"],
      [present |-> TRUE, slides |-> << >>, design |-> DEFAULT_DESIGN,
       fileName |-> "deck"],
      [present |-> TRUE, slides |-> << >>, design |-> DEFAULT_DESIGN,
       fileName |-> "deck", history |-> << << >> >>, historyIndex |-> 0] }

InitLoad ==
    /\ \E stored \in MalformedDocs \cup StoredDocs \cup {NoDoc} :
          LoadedState(stored, 1)
    /\ lastOp = Op("load", 0, 0, TRUE)
    /\ nEvents = 0

LoadEvent(A) == nEvents < MaxLoadEvents /\ nEvents' = nEvents + 1 /\ A

NextLoad ==
    \/ LoadEvent(\E type \in {"text", "shape"} : AddElement(type, "bar", 1))
    \/ LoadEvent(AddSlide(FALSE, 0, 1))
    \/ LoadEvent(HandleUndo)
    \/ LoadEvent(Reload)
    \/ PersistTimer /\ UNCHANGED nEvents

SpecLoad == InitLoad /\ [][NextLoad]_vars

\* the stored document is absent or has no slide to restore
Malformed(stored) ==
    \/ ~stored.present
    \/ "slides" \notin DOMAIN stored
    \/ Len(stored.slides) = 0

\* C22 as stated: after a load from a stored document that is absent or
\* malformed (null, slides missing, slides no array, slides an empty array)
\* the live model is one default slide, the history is the single snapshot
\* of it and the cursor is 0.
C22_Original ==
    (lastOp.op = "load" /\ Malformed(storage))
        => /\ slides = loadEffect(NoDoc, now).slides
           /\ history = << slides >>
           /\ historyIndex = 0

-----------------------------------------------------------------------------
(* The insertion specification: the insertion tools, clicks on the slide   *)
(* and on elements, text focus, drags and resizes, and the Escape key       *)

InsertEvent(A) == nEvents < MaxInsertEvents /\ nEvents' = nEvents + 1 /\ A

NextInsert ==
    \/ InsertEvent(\E enabled \in BOOLEAN : ToggleKeepInsert(enabled))
    \/ InsertEvent(\E type \in {"text", "shape", "chart"} :
                      Len(CurrentContent) < MaxContent /\ AddElement(type, "bar", 1))
    \/ InsertEvent(Len(CurrentContent) < MaxContent /\ AddImage(1))
    \/ InsertEvent(Len(CurrentContent) < MaxContent /\ HandleImageFileChange)
    \/ InsertEvent(SlideClick)
    \/ InsertEvent(\E j \in 1..MaxContent : ElementClick(j))
    \/ InsertEvent(\E j \in 1..MaxContent : TextFocus(j))
    \/ InsertEvent(\E kind \in {"drag", "resize"}, j \in 1..MaxContent :
                      GestureStart(kind, j))
    \/ InsertEvent(GestureStop)
    \/ InsertEvent(HandleEscape)
    \/ SettleTimer /\ UNCHANGED nEvents

SpecInsert == Init /\ [][NextInsert]_vars

\* C23 as stated: selecting the insertion tool for a text, a shape or a
\* chart adds no element yet and arms the insertion (PendingInsert), so that
\* the element is created by the next click on the slide.
C23_Original ==
    [][ (lastOp'.op = "addElement" /\ selectedElement'.type # "image")
        => (slides' = slides /\ pendingInsert' # NoInsert) ]_vars

\* no element is selected, no text is being edited, no insertion is armed
Idle ==
    /\ selectedElement = NoElement
    /\ editingTextId = NoId
    /\ pendingInsert = NoInsert

\* C24: right after the Escape key in the editor, and right after a click
\* on the slide outside any element with no insertion armed, the editor is
\* idle: no element is selected, no text is being edited and no insertion
\* is armed; this holds from a selection, from text editing and during a
\* drag or a resize.
C24_EscapeLeadsToIdle ==
    lastOp.op \in {"escape", "slideClick"} => Idle

\* Escape pressed while an element was being dragged or resized
C24_Witness ==
    /\ lastOp.op = "escape"
    /\ Idle
    /\ rnd # NoRnd

-----------------------------------------------------------------------------
(* The life-cycle specification: edits, drags, the slideshow, the thumbnail *)
(* captures, every timer of the component, and its unmounting               *)

LifeEvent(A) == nEvents < MaxLifeEvents /\ nEvents' = nEvents + 1 /\ A

\* the editor is on screen
Editing == mounted /\ ~isSlideshow

NextLife ==
    \/ Editing /\ LifeEvent(\E px \in {120, 123} :
                                /\ Len(CurrentContent) > 0
                                /\ UpdateElement(CurrentContent[1].id,
                                                 [x |-> px], TRUE))
    \/ Editing /\ LifeEvent(Len(slides) < 2 /\ AddSlide(FALSE, 0, 1))
    \/ Editing /\ LifeEvent(GestureStart("drag", 1))
    \/ Editing /\ LifeEvent(DragMove(490, rnd.y))
    \/ Editing /\ LifeEvent(GestureStop)
    \/ mounted /\ LifeEvent(StartSlideshow)
    \/ mounted /\ LifeEvent(ExitSlideshow)
    \/ LifeEvent(Unmount)
    \/ mounted /\ SlideshowTick /\ UNCHANGED nEvents
    \/ mounted /\ SettleTimer /\ UNCHANGED nEvents
    \/ mounted /\ PersistTimer /\ UNCHANGED nEvents
    \/ ThumbnailDebounce /\ UNCHANGED nEvents
    \/ ThumbnailFrame /\ UNCHANGED nEvents
    \/ (\E c \in inFlight : CaptureResolve(c)) /\ UNCHANGED nEvents
    \/ SettleTimerUnmounted /\ UNCHANGED nEvents

SpecLife == Init /\ [][NextLife]_vars

\* C25 as stated: a thumbnail is stored only when it shows its slide as the
\* slide is at that moment; the result of a capture that a change of
\* the slide has overtaken, whether or not a newer capture has been
\* dispatched or has delivered, is ignored.
C25_Original ==
    (lastOp.op = "captureResolve" /\ lastOp.ok)
        => \E i \in 1..Len(slides) :
              /\ slides[i].id = lastOp.a
              /\ thumbnails[lastOp.a] = slides[i]

\* C26 as stated: after the component has unmounted none of its timers and
\* no animation frame remains pending: the thumbnail debounce timer and
\* frame, the settle timer of a drag or resize, the save timer and the
\* slideshow interval.
C26_Original ==
    ~mounted => /\ ~thumbnailDebounceTimeout
                /\ thumbnailCaptureFrame = NoFrame
                /\ ~endMutatingTimeoutRef
                /\ ~persistenceTimeoutRef
                /\ ~slideshowIntervalRef

\* ---------------------------------------------------------------------
\* Snapshots: mutations of the live model after a load, an undo or a redo
\* ---------------------------------------------------------------------

SnapshotEvent(A) == nEvents < MaxSnapshotEvents /\ nEvents' = nEvents + 1 /\ A

NextSnapshots ==
    \/ SnapshotEvent(\E id \in ContentIds : UpdateElement(id, [x |-> 123], TRUE))
    \/ SnapshotEvent(\E id \in ContentIds : DeleteElement(id))
    \/ SnapshotEvent(\E d \in Designs : ApplyDesignPreset(d))
    \/ SnapshotEvent(Len(slides) < 2 /\ AddSlide(FALSE, 0, 1))
    \/ SnapshotEvent(\E i \in 0..(Len(slides) - 1) : DeleteSlide(i))
    \/ SnapshotEvent(HandleUndo)
    \/ SnapshotEvent(HandleRedo)
    \/ SnapshotEvent(Reload)
    \/ PersistTimer /\ UNCHANGED nEvents

SpecSnapshots == Init /\ [][NextSnapshots]_vars

\* h2 is h, or h2 keeps entries of h and ends with one appended entry: the
\* kept entries are in h's order and with h's content, from h's first entry
\* on or, after an eviction, from its second, and the entry under the
\* cursor hi is one of them
Preserved(h, hi, h2) ==
    \/ h2 = h
    \/ \E d \in {0, 1} :
          /\ Len(h2) - 1 + d <= Len(h)
          /\ \A i \in 1..(Len(h2) - 1) : h2[i] = h[i + d]
          /\ hi + 1 - d \in 1..(Len(h2) - 1)

StoredDatasets ==
    LET plain(n) == [i \in 1..n |-> Dataset(SeriesLabel(i - 1), << i, 2 >>, "", "bar")]
    IN { << >>, plain(1), plain(2), plain(9),
         << Dataset("A", << 3, 5 >>, "#abcdef", "bar"),
            Dataset("B", << 4, 1 >>, "", "bar") >>,
         << [label |-> "A", data |-> << 3, 5 >>, color |-> "", variant |-> "pie",
             segmentColors |-> << "", "#123456" >>] >> }

StoredChartData ==
    {NoChart} \cup
    { [type |-> t, title |-> "", labels |-> ls, datasets |-> ds] :
        t \in {"bar", "pie"}, ls \in { << >>, << "A", "B" >> }, ds \in StoredDatasets }

\* element.series and element.data of the older chart format
StoredSeries ==
    { << >>,
      << [id |-> "s1", name |-> "North", color |-> ""],
         [id |-> "", name |-> "", color |-> ""] >>,
      << [id |-> "s1", name |-> "", color |-> "#fedcba"] >> }

StoredPoints ==
    { << >>,
      << [label |-> "Jan", values |-> [s1 |-> 4]],
         [label |-> "", values |-> [s1 |-> 2]] >> }

\* the chart elements of the stored documents
ChartInputs ==
    { [id |-> 7, type |-> "chart", x |-> 120, y |-> 120,
       width |-> 420, height |-> 280, chartType |-> ct, chartData |-> cd,
       series |-> se, data |-> da] :
        ct \in {"", "area"}, cd \in StoredChartData,
        se \in StoredSeries, da \in StoredPoints }

\* a stored document of one slide that holds the chart element
ChartDoc(element) ==
    [present |-> TRUE,
     slides |-> << [StoredSlide(1, FALSE) EXCEPT !.content = << element >>] >>,
     design |-> DEFAULT_DESIGN, fileName |-> "deck"]

InitCharts ==
    /\ \E element \in ChartInputs : LoadedState(ChartDoc(element), 1)
    /\ lastOp = Op("load", 0, 0, TRUE)
    /\ nEvents = 0

ChartEvent(A) == nEvents < MaxChartEvents /\ nEvents' = nEvents + 1 /\ A

NextCharts ==
    \/ ChartEvent(\E subtype \in {"", "bar", "area", "pie", "columnLine"} :
                     Len(CurrentContent) < MaxCharts /\ AddElement("chart", subtype, 1))
    \/ ChartEvent(\E d \in Designs : ApplyDesignPreset(d))
    \/ ChartEvent(\E id \in ContentIds : DeleteElement(id))
    \/ ChartEvent(HandleUndo)

SpecCharts == InitCharts /\ [][NextCharts]_vars

\* the chart elements of the live model
LiveCharts ==
    UNION { { slides[i].content[j] :
                j \in { k \in 1..Len(slides[i].content) :
                           slides[i].content[k].type = "chart" } } :
            i \in 1..Len(slides) }

\* C28 as stated: the bar chart addElement has just created has the labels
\* Q1, Q2, Q3, Q4 and exactly 3 series of 4 values each, coloured
\* palette[0], palette[1] and palette[2].
C28_Original ==
    \A e \in LiveCharts :
        ( /\ lastOp.op = "addElement"
          /\ e.id = selectedElement.id
          /\ e.chartType = "bar" )
        => /\ e.chartData.labels = << "Q1", "Q2", "Q3", "Q4" >>
           /\ Len(e.chartData.datasets) = 3
           /\ \A i \in 1..Len(e.chartData.datasets) :
                 /\ Len(e.chartData.datasets[i].data) = 4
                 /\ i <= 3 => e.chartData.datasets[i].color = CHART_COLOR_PALETTE[i]

\* the datasets the editor starts from for a chart element
ChartConfigDatasets(e) ==
    IF e.chartData # NoChart THEN e.chartData.datasets
    ELSE createDefaultChartData(OrElse(Field(e, "chartType", ""), "bar")).datasets

\* the dataset names no colour for the mark of this index
Uncoloured(dataset, index) ==
    /\ dataset.color = ""
    /\ Field(dataset, "backgroundColor", "") = ""
    /\ LET segmentColors == Field(dataset, "segmentColors", << >>)
       IN index + 1 > Len(segmentColors) \/ segmentColors[index + 1] = ""

\* C29: a dataset without a colour of its own gets the palette colour of
\* its index, wrapping around at the palette's length: in the editor
\* dataset i gets CHART_COLOR_PALETTE[i mod 7]; in the slide panel the bars
\* of dataset i get CHART_PREVIEW_COLORS[i mod 8], the line or area of the
\* first dataset gets the first colour, series i of the older format gets
\* CHART_PREVIEW_COLORS[i mod 8], and the segments of a pie get the colours
\* in segment order. Both are functions of the element alone.
C29_PaletteByIndex ==
    \A e \in LiveCharts :
        LET config == ChartConfigDatasets(e)
            drawn  == editorChart(e).datasets
            p      == extractChartPreview(e)
            shown  == chartPreview(e)
            series == Field(e, "series", << >>)
            byIndex(index) == CHART_PREVIEW_COLORS[(index % 8) + 1]
        IN /\ \A i \in 1..Len(config) :
                 config[i].color = ""
                    => drawn[i].color = CHART_COLOR_PALETTE[((i - 1) % 7) + 1]
           /\ shown.kind = "bars"
                 => \A i \in 1..Len(p.datasets) :
                       Uncoloured(p.datasets[i], i - 1)
                          => shown.colors[i] = byIndex(i - 1)
           /\ (shown.kind = "line" /\ Uncoloured(p.datasets[1], 0))
                 => shown.colors[1] = byIndex(0)
           /\ shown.kind = "pie"
                 => \A j \in 1..Len(shown.colors) :
                       Uncoloured(p.datasets[1], j - 1)
                          => shown.colors[j] = byIndex(j - 1)
           /\ (e.chartData = NoChart \/ Len(e.chartData.labels) = 0)
                 => \A i \in 1..Len(series) :
                       series[i].color = "" => p.datasets[i].color = byIndex(i - 1)

\* a loaded chart of nine datasets without colours, drawn next to a chart
\* addElement has just created: in the editor its eighth dataset wraps
\* around to the first of the 7 colours, in the slide panel its ninth bar
\* to the first of the 8 colours
C29_Witness ==
    \E e \in LiveCharts :
        /\ lastOp.op = "addElement"
        /\ Len(ChartConfigDatasets(e)) = 9
        /\ \A i \in 1..9 : ChartConfigDatasets(e)[i].color = ""
        /\ editorChart(e).datasets[2].color = "#2d2d2d"
        /\ editorChart(e).datasets[8].color = "#111111"
        /\ chartPreview(e).kind = "bars"
        /\ chartPreview(e).colors[2] = "#ef4444"
        /\ chartPreview(e).colors[9] = "#3b82f6"

\* the element has no labels or no datasets in chartData and no series or
\* data of the older format
Unresolved(e) ==
    /\ \/ e.chartData = NoChart
       \/ Len(e.chartData.labels) = 0
       \/ Len(e.chartData.datasets) = 0
    /\ Len(Field(e, "series", << >>)) = 0
    /\ Len(Field(e, "data", << >>)) = 0

\* the default generator's chart for the element's chart type
DefaultFor(e) ==
    createDefaultChartData(
        OrElse(Field(e, "chartType", ""),
               IF e.chartData # NoChart THEN OrElse(e.chartData.type, "bar") ELSE "bar"))

\* C30 as stated: for a chart element that resolves to no datasets or no
\* labels, the editor and the slide panel use the labels and the values of
\* the default generator for the element's chart type, and the slide panel
\* shows no placeholder.
C30_Original ==
    \A e \in LiveCharts :
        Unresolved(e)
        => LET default == DefaultFor(e)
               p       == extractChartPreview(e)
               values(datasets) == [i \in 1..Len(datasets) |-> datasets[i].data]
           IN /\ editorChart(e).labels = default.labels
              /\ values(editorChart(e).datasets) = values(default.datasets)
              /\ p.labels = default.labels
              /\ values(p.datasets) = values(default.datasets)
              /\ chartPreview(e).kind # "placeholder"

\* ---------------------------------------------------------------------
\* History after a restore
\* ---------------------------------------------------------------------

\* C31 as stated: no step other than the restore itself (an edit, the stop
\* of a drag or resize, the settle timer) finds the flag of undo and redo
\* set and, because of it, leaves the history as it is although the live
\* slides differ from the snapshot under the cursor.
C31_Original ==
    [][ lastOp'.op \notin {"undo", "redo", "load"}
        => ~( /\ isUndoRedoAction
              /\ ~isUndoRedoAction'
              /\ history' = history
              /\ historyIndex' < Len(history')
              /\ ~ContentIdentical(slides', history'[historyIndex' + 1]) ) ]_vars

\* no drag or resize is in progress and no settle timer is pending
Quiescent == rnd = NoRnd /\ ~endMutatingTimeoutRef /\ ~isMutatingRef

\* C32 as stated: in every quiescent state the cursor is inside the history
\* and the live slides are content-identical to the snapshot under it.
C32_Original ==
    Quiescent
    => /\ 0 <= historyIndex
       /\ historyIndex < Len(history)
       /\ ContentIdentical(slides, history[historyIndex + 1])

\* C33 as stated: in every reachable state the active-slide index refers to
\* an existing slide, also after undo or redo restored a shorter deck.
C33_Original ==
    /\ 0 <= currentSlideIndex
    /\ currentSlideIndex < Len(slides)

\* C34 as stated: loading the document that persistCurrentState wrote
\* restores live slides content-identical to the slides it wrote, also when
\* it wrote them before the last change was in the history.
C34_Original ==
    (storage.present /\ "slides" \in DOMAIN storage)
    => ContentIdentical(loadEffect(storage, now).slides, storage.slides)

\* ---------------------------------------------------------------------
\* Images: the file read between the file selection and the image load
\* ---------------------------------------------------------------------

ImageEvent(A) == nEvents < MaxImageEvents /\ nEvents' = nEvents + 1 /\ A

NextImage ==
    \/ ImageEvent(AddImage(1))
    \/ ImageEvent(ImageFileChosen)
    \/ ImageEvent(ImageLoaded)
    \/ ImageEvent(\E id \in ContentIds : UpdateElement(id, [x |-> 123], TRUE))
    \/ ImageEvent(\E id \in ContentIds : DeleteElement(id))
    \/ ImageEvent(Len(CurrentContent) < MaxContent /\ AddElement("shape", "", 1))
    \/ ImageEvent(Len(slides) < 2 /\ AddSlide(FALSE, 0, 1))
    \/ ImageEvent(\E i \in 0..(Len(slides) - 1) : SelectSlide(i))

SpecImage == Init /\ [][NextImage]_vars

\* C35 as stated: the image element of a finished file read is appended to
\* the content the active slide has at that moment, and nothing else in the
\* deck changes: what was added, updated, deleted or selected between the
\* file selection and the image load stays as it is.
C35_Original ==
    [][ lastOp'.op = "imageLoaded"
        => /\ currentSlideIndex < Len(slides)
           /\ slides' = [slides EXCEPT ![currentSlideIndex + 1].content =
                            Append(@, imageElement(imageRead.insertInfo))] ]_vars

\* ---------------------------------------------------------------------
\* Gestures: drags and resizes that follow each other within the settle
\* delay
\* ---------------------------------------------------------------------

GestureEvent(A) == nEvents < MaxGestureEvents /\ nEvents' = nEvents + 1 /\ A

NextGestures ==
    \/ GestureEvent(\E kind \in {"drag", "resize"}, j \in 1..MaxElements :
                        GestureStart(kind, j))
    \/ GestureEvent(\E px \in PointerXs, py \in PointerYs : DragMove(px, py))
    \/ GestureEvent(\E w \in Widths, px \in PointerXs :
                        ResizeMove(w, rnd.height, px, rnd.y))
    \/ GestureEvent(GestureStop)
    \/ GestureEvent(Len(CurrentContent) < MaxElements /\ AddElement("shape", "", 1))
    \/ SettleTimer /\ UNCHANGED nEvents

SpecGestures == Init /\ [][NextGestures]_vars

\* the gesture of the ghost record started while the settle timer of an
\* earlier gesture was pending, that gesture had started with no timer
\* pending, and no event other than those of the two gestures has come since
PairedGesture ==
    /\ gesture.kind # "none" /\ ~gesture.fresh /\ gesture.clean
    /\ gesture.prev.kind # "none"

\* both gestures of the pair changed the element they acted on
BothMoved == gesture.prev.moved /\ gesture.moved

\* the snapshot has the final geometry of both gestures of the pair
BothGeometries(snapshot) ==
    /\ HasGeometry(snapshot, currentSlideIndex, gesture.id, gesture.updates)
    /\ gesture.prev.id # gesture.id
         => HasGeometry(snapshot, currentSlideIndex, gesture.prev.id,
                        gesture.prev.updates)

RestoreEvent(A) == nEvents < MaxRestoreEvents /\ nEvents' = nEvents + 1 /\ A

\* edits, drags, undo and redo on the first element of the active slide
NextRestore ==
    \/ RestoreEvent(\E u \in XYUpdates :
          /\ Len(CurrentContent) >= 1
          /\ UpdateElement(CurrentContent[1].id, u, TRUE))
    \/ RestoreEvent(GestureStart("drag", 1))
    \/ RestoreEvent(\E px \in PointerXs, py \in PointerYs : DragMove(px, py))
    \/ RestoreEvent(GestureStop)
    \/ RestoreEvent(HandleUndo)
    \/ RestoreEvent(HandleRedo)
    \/ SettleTimer /\ UNCHANGED nEvents

SpecRestore == Init /\ [][NextRestore]_vars

\* C37 as stated: no two adjacent history snapshots are content-identical.
C37_Original ==
    \A i \in 1..(Len(history) - 1) :
        ~ContentIdentical(history[i], history[i + 1])

\* C38: a snapshot committed while the cursor is below the newest entry
\* drops the entries after the cursor, keeps the entries up to and
\* including the cursor as they were and in order, and appends the new
\* snapshot, the live slides, as the newest entry with the cursor on it;
\* a redo then does nothing.
C38_CommitTruncates ==
    [][ lastOp'.cut > 0
        => /\ lastOp'.cut = Len(history) - 1 - historyIndex
           /\ Len(history') = historyIndex + 2
           /\ SubSeq(history', 1, historyIndex + 1)
                = SubSeq(history, 1, historyIndex + 1)
           /\ ContentIdentical(history'[Len(history')], slides')
           /\ historyIndex' = Len(history') - 1
           /\ ~handleRedo(history', historyIndex', slides',
                          isUndoRedoAction').ok ]_vars

\* an edit made after an undo has been committed over the undone entry
C38_Witness ==
    /\ lastOp.op = "updateElement"
    /\ lastOp.cut = 1
    /\ Len(history) = 2
    /\ historyIndex = 1
    /\ ContentIdentical(slides, history[2])
    /\ ~ContentIdentical(history[1], history[2])

\* ---------------------------------------------------------------------
\* The debounced save, with the save timer firing when it stays pending
\* ---------------------------------------------------------------------

\* setTimeout runs the callback of a timer that stays pending
SaveTimerFires == mounted /\ PersistTimer /\ UNCHANGED nEvents

SpecSaveFair == Init /\ [][NextSave]_vars /\ WF_vars(SaveTimerFires)

\* the last event changed the slides or the file name
ModelChanged ==
    /\ lastOp.op \in {"updateElement", "setFileName", "undo", "dragStop"}
    /\ lastOp.ok

\* the stored document has the live slides, design and file name
StorageMatchesLive ==
    /\ storage.present
    /\ ContentIdentical(storage.slides, slides)
    /\ storage.design = activeDesign
    /\ storage.fileName = fileName

\* C39: after a model change, the storage eventually holds a document with
\* the live slides, design and file name; with no further change it keeps
\* holding it.
C39_SaveNotLost ==
    /\ ModelChanged ~> StorageMatchesLive
    /\ [][ (StorageMatchesLive /\ slides' = slides /\ activeDesign' = activeDesign
              /\ fileName' = fileName) => StorageMatchesLive' ]_vars

\* the save timer has written the document of an edit made after the load
C39_Witness ==
    /\ lastOp.op = "persistTimer"
    /\ StorageMatchesLive
    /\ Len(history) > 1
    /\ ~ContentIdentical(slides, history[1])

\* ---------------------------------------------------------------------
\* The timers: thumbnail debounce, history settle and persistence
\* ---------------------------------------------------------------------

\* C40: of each kind of timer (thumbnail debounce, history settle,
\* persistence) setTimeout holds at most one callback at any moment, the one
\* whose handle the ref of the kind holds: every scheduling cancels the
\* pending timer of its kind first, so no callback of a superseded event is
\* left to fire.
C40_OneTimerPerKind ==
    /\ thumbnailTimeouts = IF thumbnailDebounceTimeout THEN 1 ELSE 0
    /\ endMutatingTimeouts = IF endMutatingTimeoutRef THEN 1 ELSE 0
    /\ persistenceTimeouts = IF persistenceTimeoutRef THEN 1 ELSE 0

\* a drag has stopped and changed the slides while a save and a thumbnail
\* capture were pending: both were scheduled again and the settle timer was
\* set, and one timer of each kind is pending
C40_Witness ==
    /\ lastOp.op = "dragStop" /\ lastOp.ok
    /\ lastOp.writes = 1
    /\ thumbnailTimeouts = 1
    /\ endMutatingTimeouts = 1
    /\ persistenceTimeouts = 1

====
